---- MODULE Spec2Model ----
(***************************************************************************)
(* A model of the chat client: the character-bounded chat history          *)
(* (cli_chatbot/chat/history.py), the server launcher with the stream      *)
(* loggers it attaches to a child process                                  *)
(* (cli_chatbot/mcp/server_launcher.py), and the chat loop                 *)
(* (cli_chatbot/chat/loop.py) with the LLM client's send_message           *)
(* (cli_chatbot/llm/gemini_client.py).                                     *)
(***************************************************************************)
EXTENDS Integers, Sequences, FiniteSets, TLC

\* ------------------------------------------------------------------ bounds
\* Longest message content, in characters.
MaxLen == 3
\* Largest max_chars a history is created with.
MaxCap == 3
\* Most add_message calls between two clear() calls.
MaxAdds == 3
\* Most lines written to one stream.
MaxLines == 2
\* Most stop() calls on one logger.
MaxStops == 2
\* Most lines one run() reads, and most direct calls of process_message.
MaxTurns == 2
\* Most tokens in one element of 'command' or 'args'.
MaxPartLen == 2
\* Most elements of 'command' or of 'args'.
MaxParts == 2

\* The longest configuration document, in tokens.
MaxDocLen == 3

\* The most process_tool_call calls made.
MaxCalls == 2

\* The most lines on the client's standard input.
MaxResults == 2

\* ChatHistoryManager's default max_chars.
DefaultMaxChars == 2000

\* ---------------------------------------------------------------- history
VARIABLES
    max_chars,       \* ChatHistoryManager.max_chars
    messages,        \* ChatHistoryManager.messages: sequence of [role, content]
    current_chars,   \* ChatHistoryManager._current_chars
    added,           \* history variable: the messages given to add_message since
                     \* creation or the last clear(), as given
    lastOp,          \* history variable: the last call that changed the history
    rendered,        \* history variable: what the get_context_string calls made
                     \* since the last add_message or clear call returned, the
                     \* last two of them at most
    cleared          \* history variable: the last clear() call removed messages

histVars == <<max_chars, messages, current_chars, added, lastOp, rendered, cleared>>

\* ---------------------------------------------------------- stream logger
\* One StreamLogger per stream of the child process; each variable maps a
\* stream to its part of the state.
VARIABLES
    stream_kind,     \* what the stream object is: "pipe" (a file: reads fail once it
                     \* is closed) or "mock" (readline is scripted, close changes nothing)
    close_fails,     \* whether stream.close() raises
    stream_buf,      \* lines written to the stream and not yet read
    stream_eof,      \* the writer has closed its end
    stream_closed,   \* stream.close() has been called
    close_calls,     \* number of stream.close() calls
    produced,        \* history variable: every line written to the stream
    thread,          \* StreamLogger._thread and the position of _log_stream in it
    line,            \* _log_stream's local variable line
    thread_exit,     \* history variable: why _log_stream left its loop
    stop_event,      \* StreamLogger._stop_event
    sink,            \* the calls made to logger_method, in order
    stop_pc,         \* the position of a running stop() call
    stops,           \* number of stop() calls that have returned
    stop_did,        \* history variable: what the last stop() call did, and
                     \* whether it repeats a stop() (no start() in between)
    escaped          \* exceptions that left _log_stream or stop()

slVars == <<stream_kind, close_fails, stream_buf, stream_eof, stream_closed,
            close_calls, produced, thread, line, thread_exit, stop_event, sink,
            stop_pc, stops, stop_did, escaped>>

\* ---------------------------------------------------------- launch_server
VARIABLES
    launcher,        \* the ServerLauncher object: its attributes
    loggers,         \* the StreamLogger objects _start_output_logger has made, in
                     \* order: the stream and the logger_method of each
    launch_pc,       \* the position of the launch_server call
    server_config,   \* launch_server's argument
    full_command,    \* launch_server's local variable full_command
    popen_calls,     \* the argument vectors given to subprocess.Popen, in order
    process,         \* the child process: "none" or "running"
    error_log,       \* the calls made to self.logger.error by launch_server
    pending,         \* the exception travelling through the with statement
    outcome          \* what launch_server gave its caller: the handle or an exception

launchVars == <<launcher, loggers, launch_pc, server_config, full_command, popen_calls,
                process, error_log, pending, outcome>>

\* ---------------------------------------------------------------- chat loop
\* One ChatLoop over the history above and an LLM client.
VARIABLES
    run_pc,          \* where run() is: "none" (not called), "banner", "input",
                     \* "dispatch", "continue", "process", "loop_back", "handler",
                     \* "returned" or "raised"
    pm_pc,           \* where process_message is: "idle", "add_user", "render",
                     \* "send", "display", "add_assistant" or "return"
    prompts,         \* history variable: the lines input() has returned, as typed
    user_input,      \* run(): user_input
    user_message,    \* process_message: user_message
    context,         \* process_message: context
    response,        \* process_message: response
    pm_calls,        \* history variable: the arguments of the process_message calls
    pm_returns,      \* history variable: what the process_message calls returned
    llm_calls,       \* history variable: the arguments of the send_message calls
    displayed,       \* what print() has written, one entry per call
    interrupted_at,  \* history variable: the run_pc at which KeyboardInterrupt was
                     \* raised, "none" before
    chat_escaped     \* the exceptions that have left run() or process_message

chatVars == <<run_pc, pm_pc, prompts, user_input, user_message, context, response,
              pm_calls, pm_returns, llm_calls, displayed, interrupted_at,
              chat_escaped>>

\* ------------------------------------------------------ read_servers_json
VARIABLES
    read_pc,         \* where the read_servers_json call is: "idle" (not called),
                     \* "open", "load", "except" or "done"
    config_file,     \* the file the call's filename names, as it is on disk
    read_raised,     \* the exception raised inside the try statement
    read_errors,     \* the calls made to self.logger.error by read_servers_json
    read_result      \* what read_servers_json gave its caller

readVars == <<read_pc, config_file, read_raised, read_errors, read_result>>

\* ------------------------------------------------------------ ToolRegistry
VARIABLES
    tools,           \* ToolRegistry._tools: a function from the registered names
                     \* to their schemas
    first_given,     \* history variable: for every name a register call was given,
                     \* the schema the first such call was given
    reg_call,        \* the last call made on the registry: its name and arguments
    reg_result       \* what that call gave its caller

regVars == <<tools, first_given, reg_call, reg_result>>

\* -------------------------------------------------------------- MCP client
VARIABLES
    client_pc,       \* where the client is: "idle", in process_tool_call ("dump",
                     \* "newline", "flush") or in read_tool_result ("readline",
                     \* "loads")
    tool_call,       \* process_tool_call's argument
    tool_calls,      \* history variable: the arguments of the process_tool_call
                     \* calls made, in order
    stdout_buf,      \* the text written to sys.stdout and not flushed yet
    stdout_sent,     \* the text sys.stdout has handed to its reader
    stdin,           \* the text on sys.stdin that has not been read
    result_line,     \* read_tool_result's local variable line
    client_result    \* what the last read_tool_result call gave its caller

clientVars == <<client_pc, tool_call, tool_calls, stdout_buf, stdout_sent, stdin,
                result_line, client_result>>

\* The variables a history action leaves alone.
nonHistVars == <<slVars, launchVars, chatVars, readVars, regVars, clientVars>>

\* The variables a step of a logger's thread, of its stream's writer or inside
\* stop() leaves alone, besides those of the logger.
nonStreamVars == <<histVars, launchVars, chatVars, readVars, regVars, clientVars>>

\* The variables a start() or stop() call leaves alone, besides those of the
\* logger and of the caller.
nonCallVars == <<histVars, chatVars, readVars, regVars, clientVars>>

Chars == {"a", "b"}

Roles == {"user", "assistant"}

\* Message contents: the strings over Chars of at most MaxLen characters in which
\* no character repeats its neighbour ("", "a", "b", "ab", "ba", "aba", ...).
Contents ==
    { c \in UNION { [1..n -> Chars] : n \in 0..MaxLen } :
        \A i \in 1..(Len(c) - 1) : c[i] # c[i + 1] }

Min(a, b) == IF a <= b THEN a ELSE b

\* Python's s[:n] for n >= 0.
SlicePrefix(s, n) == SubSeq(s, 1, Min(n, Len(s)))

\* sum(len(m["content"]) for m in ms)
RECURSIVE SumChars(_)
SumChars(ms) ==
    IF ms = <<>> THEN 0 ELSE Len(Head(ms).content) + SumChars(Tail(ms))

\* The state of a history: its message list and its running character count.
HistState(ms, cur) == [messages |-> ms, current_chars |-> cur]

\* Mutant: the count goes down by one for a popped message, not by its length.
RECURSIVE EvictKeepCount(_, _)
EvictKeepCount(ms, cur) ==
    IF cur > max_chars /\ Len(ms) > 1
    THEN EvictKeepCount(Tail(ms), cur - 1)
    ELSE HistState(ms, cur)

\* Mutant: the second oldest message is popped instead of the oldest.
RECURSIVE EvictSecond(_, _)
EvictSecond(ms, cur) ==
    IF cur > max_chars /\ Len(ms) > 1
    THEN EvictSecond(<<Head(ms)>> \o Tail(Tail(ms)), cur - Len(ms[2].content))
    ELSE HistState(ms, cur)

\* Mutant: the loop also pops the last message left.
RECURSIVE EvictAll(_, _)
EvictAll(ms, cur) ==
    IF cur > max_chars /\ Len(ms) > 0
    THEN EvictAll(Tail(ms), cur - Len(Head(ms).content))
    ELSE HistState(ms, cur)

\* Mutant: the loop shortens the oldest message by a character at a time, and
\* pops it once it is empty.
RECURSIVE EvictByTrimming(_, _)
EvictByTrimming(ms, cur) ==
    IF cur > max_chars /\ Len(ms) > 1
    THEN IF Head(ms).content = <<>>
         THEN EvictByTrimming(Tail(ms), cur)
         ELSE EvictByTrimming(<<[role |-> Head(ms).role,
                                 content |-> Tail(Head(ms).content)]>>
                                  \o Tail(ms), cur - 1)
    ELSE HistState(ms, cur)

\* Mutant: the loop also pops when the count is at the limit.
RECURSIVE EvictAtLimit(_, _)
EvictAtLimit(ms, cur) ==
    IF cur >= max_chars /\ Len(ms) > 1
    THEN EvictAtLimit(Tail(ms), cur - Len(Head(ms).content))
    ELSE HistState(ms, cur)

\* The trimming loop of add_message:
\*   while self._current_chars > self.max_chars and len(self.messages) > 1:
\*       removed = self.messages.pop(0)
\*       self._current_chars -= len(removed["content"])
RECURSIVE Evict(_, _)
Evict(ms, cur) ==
    IF cur > max_chars /\ Len(ms) > 1
    THEN Evict(Tail(ms), cur - Len(Head(ms).content))
    ELSE HistState(ms, cur)

\* Mutant: the oversized message is left as it is.
TruncateNever(st) == st

\* Mutant: the oversized message keeps its last max_chars characters.
TruncateTail(st) ==
    IF st.current_chars > max_chars /\ Len(st.messages) = 1
    THEN LET c == st.messages[1].content IN
         HistState(<<[st.messages[1] EXCEPT
                        !.content = SubSeq(c, Len(c) - max_chars + 1, Len(c))]>>,
                   max_chars)
    ELSE st

\* The single-message case of add_message:
\*   if self._current_chars > self.max_chars and len(self.messages) == 1:
\*       self.messages[0]["content"] = self.messages[0]["content"][:self.max_chars]
\*       self._current_chars = self.max_chars
Truncate(st) ==
    IF st.current_chars > max_chars /\ Len(st.messages) = 1
    THEN HistState(<<[st.messages[1] EXCEPT
                        !.content = SlicePrefix(st.messages[1].content, max_chars)]>>,
                   max_chars)
    ELSE st

\* add_message as a function of the history's state.
AddResult(ms, cur, role, content) ==
    Truncate(Evict(Append(ms, [role |-> role, content |-> content]),
                   cur + Len(content)))

\* ChatHistoryManager(max_chars): an empty history.
HistInit ==
    /\ max_chars \in 0..MaxCap
    /\ messages = <<>>
    /\ current_chars = 0
    /\ added = <<>>
    /\ lastOp = "init"
    /\ rendered = <<>>
    /\ cleared = FALSE

\* add_message(role, content), as it acts on the history.
add_message(role, content) ==
    /\ LET st == AddResult(messages, current_chars, role, content) IN
       /\ messages' = st.messages
       /\ current_chars' = st.current_chars
    /\ added' = Append(added, [role |-> role, content |-> content])
    /\ lastOp' = "add"
    /\ rendered' = <<>>
    /\ UNCHANGED <<max_chars, cleared>>

\* history.add_message(role, content), called on a history by itself.
AddMessage(role, content) ==
    /\ Len(added) < MaxAdds
    /\ add_message(role, content)
    /\ UNCHANGED nonHistVars

\* Mutant: a newline after every line, the last one too.
RECURSIVE JoinLinesTerminated(_)
JoinLinesTerminated(ms) ==
    IF ms = <<>> THEN <<>>
    ELSE <<Head(ms).role, ": ">> \o Head(ms).content \o <<"\n">>
             \o JoinLinesTerminated(Tail(ms))

\* "\n".join(f"{msg['role']}: {msg['content']}" for msg in ms)
RECURSIVE JoinLines(_)
JoinLines(ms) ==
    IF ms = <<>> THEN <<>>
    ELSE LET first == <<Head(ms).role, ": ">> \o Head(ms).content IN
         IF Len(ms) = 1 THEN first
         ELSE first \o <<"\n">> \o JoinLines(Tail(ms))

\* A rendering that leaves out the newest message.
RenderWithoutNewest(ms) ==
    IF ms = <<>> THEN <<>> ELSE JoinLines(SubSeq(ms, 1, Len(ms) - 1))

\* history_manager.get_context_string(), of the messages ms
get_context_string(ms) == JoinLines(ms)

\* The last two of the strings returned, r being the newest.
LastTwo(rs, r) == IF rs = <<>> THEN <<r>> ELSE <<rs[Len(rs)], r>>

\* Mutant: the call hands the messages over and leaves the history empty.
GetContextStringDraining ==
    /\ rendered' = LastTwo(rendered, get_context_string(messages))
    /\ messages' = <<>>
    /\ current_chars' = 0
    /\ UNCHANGED <<max_chars, added, lastOp, cleared, nonHistVars>>

\* history.get_context_string()
GetContextString ==
    /\ rendered' = LastTwo(rendered, get_context_string(messages))
    /\ UNCHANGED <<max_chars, messages, current_chars, added, lastOp, cleared,
                   nonHistVars>>

\* Mutant: the messages go, the count stays.
ClearKeepsCount ==
    /\ messages' = <<>>
    /\ added' = <<>>
    /\ lastOp' = "clear"
    /\ rendered' = <<>>
    /\ cleared' = (messages # <<>>)
    /\ UNCHANGED <<max_chars, current_chars, nonHistVars>>

\* history.clear()
Clear ==
    /\ messages' = <<>>
    /\ current_chars' = 0
    /\ added' = <<>>
    /\ lastOp' = "clear"
    /\ rendered' = <<>>
    /\ cleared' = (messages # <<>>)
    /\ UNCHANGED <<max_chars, nonHistVars>>

\* -------------------------------------------------- stream logger: model
Streams == {"stdout", "stderr"}

StreamKinds == {"pipe", "mock"}

\* Characters a line is made of; str.strip() removes the last two at both ends.
Whitespace == {" ", "\n"}

\* What readline() returns for a line: its text and its line terminator.
Lines == { <<"a", "\n">>, <<"b", "\n">>, <<" ", "a", " ", "\n">> }

\* readline() at the end of the stream: the empty string.
EndOfStream == <<>>

\* The scripts of a mock stream: at most MaxLines lines of ls.
Scripts(ls) == UNION { [1..n -> ls] : n \in 0..MaxLines }

RECURSIVE StripLeft(_)
StripLeft(s) ==
    IF s # <<>> /\ Head(s) \in Whitespace THEN StripLeft(Tail(s)) ELSE s

RECURSIVE StripRight(_)
StripRight(s) ==
    IF s # <<>> /\ s[Len(s)] \in Whitespace
    THEN StripRight(SubSeq(s, 1, Len(s) - 1))
    ELSE s

\* Mutant: the line is handed to the sink as it was read.
StripNothing(s) == s

\* line.strip()
Strip(s) == StripRight(StripLeft(s))

\* Mutant: a logger created in test mode, which skips the sink.
TestModeOn == TRUE

\* StreamLogger._test_mode: the default, which is what _start_output_logger and
\* every other construction in the repository use.
test_mode == FALSE

\* The error a read of a closed file raises.
ClosedFileError == "ValueError: I/O operation on closed file"

\* Mutant: the closed-file error is raised again like any other ValueError.
OnReadErrorReraise(e) ==
    IF e \in {"AttributeError", "RuntimeError"} THEN "break" ELSE "raise"

\* The except clauses around readline() in _log_stream.
OnReadError(e) ==
    IF e = ClosedFileError THEN "break"
    ELSE IF e \in {"AttributeError", "RuntimeError"} THEN "break"
    ELSE "raise"

\* Mutant: an error of close() is not caught.
CloseErrorsLeak(s) == IF close_fails[s] THEN {"close error"} ELSE {}

\* The errors _close_stream lets out: none (try: close() except: pass).
CloseErrors(s) == {}

\* self._thread.is_alive()
IsAlive(s) == thread[s] \in {"loop", "read", "blocked", "log", "finally"}

\* A readline() of the thread is waiting for data.  The buffered reader of a pipe
\* holds the file's lock while it waits, and close() takes the same lock.
ReadInProgress(s) == stream_kind[s] = "pipe" /\ thread[s] = "blocked"

\* _close_stream(): one call of stream.close(), whatever it raises swallowed.
\* close() on a pipe waits for a readline() in progress on it to return: it
\* does not interrupt the read.
CloseStream(s) ==
    /\ ~ReadInProgress(s)
    /\ close_calls' = [close_calls EXCEPT ![s] = @ + 1]
    /\ stream_closed' = [stream_closed EXCEPT ![s] = TRUE]
    /\ escaped' = [escaped EXCEPT ![s] = @ \cup CloseErrors(s)]

\* The loggers before anything has run.
SLUnused ==
    /\ stream_closed = [s \in Streams |-> FALSE]
    /\ close_calls = [s \in Streams |-> 0]
    /\ thread = [s \in Streams |-> "none"]
    /\ line = [s \in Streams |-> EndOfStream]
    /\ thread_exit = [s \in Streams |-> "none"]
    /\ stop_event = [s \in Streams |-> FALSE]
    /\ sink = [s \in Streams |-> <<>>]
    /\ stop_pc = [s \in Streams |-> "idle"]
    /\ stops = [s \in Streams |-> 0]
    /\ stop_did = [s \in Streams |->
                     [started |-> FALSE, closed |-> FALSE, joined |-> FALSE,
                      again |-> FALSE]]
    /\ escaped = [s \in Streams |-> {}]

\* The loggers and streams before anything has run, the streams holding the
\* lines of script: a pipe is empty and open, a mock's readline has its whole
\* script (side_effect), the empty string last.
SLStart(script) ==
    /\ stream_buf = script
    /\ stream_eof = [s \in Streams |-> stream_kind[s] = "mock"]
    /\ produced = script
    /\ SLUnused

\* The loggers and empty streams before anything has run.
SLFresh ==
    /\ stream_buf = [s \in Streams |-> <<>>]
    /\ stream_eof = [s \in Streams |-> FALSE]
    /\ produced = [s \in Streams |-> <<>>]
    /\ SLUnused


\* No logger created on any stream.
SLIdle ==
    /\ stream_kind = [s \in Streams |-> "pipe"]
    /\ close_fails = [s \in Streams |-> FALSE]
    /\ SLFresh

\* The writer of stream s writes one line.  A closed pipe drops it.
ChildWrite(s, l) ==
    /\ ~stream_eof[s]
    /\ Len(produced[s]) < MaxLines
    /\ produced' = [produced EXCEPT ![s] = Append(@, l)]
    /\ stream_buf' = [stream_buf EXCEPT ![s] =
           IF stream_kind[s] = "pipe" /\ stream_closed[s] THEN @ ELSE Append(@, l)]
    /\ UNCHANGED <<stream_kind, close_fails, stream_eof, stream_closed, close_calls,
                   thread, line, thread_exit, stop_event, sink, stop_pc, stops,
                   stop_did, escaped, nonStreamVars>>

\* The writer of stream s closes its end: reads past the buffered lines return "".
ChildExit(s) ==
    /\ ~stream_eof[s]
    /\ stream_eof' = [stream_eof EXCEPT ![s] = TRUE]
    /\ UNCHANGED <<stream_kind, close_fails, stream_buf, stream_closed, close_calls,
                   produced, thread, line, thread_exit, stop_event, sink, stop_pc,
                   stops, stop_did, escaped, nonStreamVars>>

\* start(): the thread is created and started.
Start(s) ==
    /\ thread[s] = "none"
    /\ thread' = [thread EXCEPT ![s] = "loop"]
    /\ UNCHANGED <<stream_kind, close_fails, stream_buf, stream_eof, stream_closed,
                   close_calls, produced, line, thread_exit, stop_event, sink,
                   stop_pc, stops, stop_did, escaped, nonCallVars>>

\* _log_stream: while not self._stop_event.is_set()
T_Loop(s) ==
    /\ thread[s] = "loop"
    /\ IF stop_event[s]
       THEN /\ thread' = [thread EXCEPT ![s] = "finally"]
            /\ thread_exit' = [thread_exit EXCEPT ![s] = "stop_event"]
       ELSE /\ thread' = [thread EXCEPT ![s] = "read"]
            /\ UNCHANGED thread_exit
    /\ UNCHANGED <<stream_kind, close_fails, stream_buf, stream_eof, stream_closed,
                   close_calls, produced, line, stop_event, sink, stop_pc, stops,
                   stop_did, escaped, nonStreamVars>>

\* _log_stream: line = self.stream.readline(), with the EOF test and the except
\* clauses.  On a pipe that has been closed the call raises the closed-file
\* error; on a stream with a line or at its end it returns; otherwise it waits
\* ("blocked") until the writer writes or closes its end.  A mock's readline
\* does not look at close().
T_Read(s) ==
    /\ thread[s] \in {"read", "blocked"}
    /\ IF stream_kind[s] = "pipe" /\ stream_closed[s]
       THEN /\ thread' = [thread EXCEPT ![s] = "finally"]
            /\ thread_exit' = [thread_exit EXCEPT ![s] =
                   IF OnReadError(ClosedFileError) = "break"
                   THEN "closed_file" ELSE "raised"]
            /\ escaped' = [escaped EXCEPT ![s] =
                   IF OnReadError(ClosedFileError) = "break"
                   THEN @ ELSE @ \cup {ClosedFileError}]
            /\ UNCHANGED <<stream_buf, line>>
       ELSE IF stream_buf[s] # <<>>
       THEN /\ line' = [line EXCEPT ![s] = Head(stream_buf[s])]
            /\ stream_buf' = [stream_buf EXCEPT ![s] = Tail(@)]
            /\ thread' = [thread EXCEPT ![s] = IF test_mode THEN "loop" ELSE "log"]
            /\ UNCHANGED <<thread_exit, escaped>>
       ELSE IF stream_eof[s]
       THEN /\ line' = [line EXCEPT ![s] = EndOfStream]
            /\ thread' = [thread EXCEPT ![s] = "finally"]
            /\ thread_exit' = [thread_exit EXCEPT ![s] = "eof"]
            /\ UNCHANGED <<stream_buf, escaped>>
       ELSE /\ thread[s] = "read"
            /\ thread' = [thread EXCEPT ![s] = "blocked"]
            /\ UNCHANGED <<stream_buf, line, thread_exit, escaped>>
    /\ UNCHANGED <<stream_kind, close_fails, stream_eof, stream_closed, close_calls,
                   produced, stop_event, sink, stop_pc, stops, stop_did,
                   nonStreamVars>>

\* A forwarding step that hands the line to the sink twice.
T_LogTwice(s) ==
    /\ thread[s] = "log"
    /\ sink' = [sink EXCEPT ![s] = Append(Append(@, Strip(line[s])), Strip(line[s]))]
    /\ thread' = [thread EXCEPT ![s] = "loop"]
    /\ UNCHANGED <<stream_kind, close_fails, stream_buf, stream_eof, stream_closed,
                   close_calls, produced, line, thread_exit, stop_event, stop_pc,
                   stops, stop_did, escaped, nonStreamVars>>

\* _log_stream: self.logger_method(line.strip())
T_Log(s) ==
    /\ thread[s] = "log"
    /\ sink' = [sink EXCEPT ![s] = Append(@, Strip(line[s]))]
    /\ thread' = [thread EXCEPT ![s] = "loop"]
    /\ UNCHANGED <<stream_kind, close_fails, stream_buf, stream_eof, stream_closed,
                   close_calls, produced, line, thread_exit, stop_event, stop_pc,
                   stops, stop_did, escaped, nonStreamVars>>

\* _log_stream: finally: self._close_stream(); the thread ends.
T_Finally(s) ==
    /\ thread[s] = "finally"
    /\ CloseStream(s)
    /\ thread' = [thread EXCEPT ![s] = "done"]
    /\ UNCHANGED <<stream_kind, close_fails, stream_buf, stream_eof, produced, line,
                   thread_exit, stop_event, sink, stop_pc, stops, stop_did,
                   nonStreamVars>>

\* stop(), the definition in effect (the second one of the class body, which
\* replaces the first): if self._thread and self._thread.is_alive()
StopBegin(s) ==
    /\ stop_pc[s] = "idle"
    /\ stops[s] < MaxStops
    /\ stop_did' = [stop_did EXCEPT ![s] =
           [started |-> thread[s] # "none", closed |-> FALSE, joined |-> FALSE,
            again |-> stops[s] > 0 /\ stop_did[s].started = (thread[s] # "none")]]
    /\ IF thread[s] # "none" /\ IsAlive(s)
       THEN /\ stop_pc' = [stop_pc EXCEPT ![s] = "close"]
            /\ UNCHANGED stops
       ELSE /\ stops' = [stops EXCEPT ![s] = @ + 1]
            /\ UNCHANGED stop_pc
    /\ UNCHANGED <<stream_kind, close_fails, stream_buf, stream_eof, stream_closed,
                   close_calls, produced, thread, line, thread_exit, stop_event,
                   sink, escaped, nonCallVars>>

\* stop(): self._close_stream()
StopClose(s) ==
    /\ stop_pc[s] = "close"
    /\ CloseStream(s)
    /\ stop_pc' = [stop_pc EXCEPT ![s] = "join"]
    /\ stop_did' = [stop_did EXCEPT ![s].closed = TRUE]
    /\ UNCHANGED <<stream_kind, close_fails, stream_buf, stream_eof, produced,
                   thread, line, thread_exit, stop_event, sink, stops,
                   nonStreamVars>>

\* stop(): self._thread.join(timeout=0.1), which returns when the thread has
\* ended or when the timeout has passed, whichever is first; stop() returns.
StopJoin(s) ==
    /\ stop_pc[s] = "join"
    /\ stop_pc' = [stop_pc EXCEPT ![s] = "idle"]
    /\ stop_did' = [stop_did EXCEPT ![s].joined = TRUE]
    /\ stops' = [stops EXCEPT ![s] = @ + 1]
    /\ UNCHANGED <<stream_kind, close_fails, stream_buf, stream_eof, stream_closed,
                   close_calls, produced, thread, line, thread_exit, stop_event,
                   sink, escaped, nonStreamVars>>

\* A history nobody uses: ChatHistoryManager() with its default max_chars.
HistIdle ==
    /\ max_chars = DefaultMaxChars
    /\ messages = <<>>
    /\ current_chars = 0
    /\ added = <<>>
    /\ lastOp = "init"
    /\ rendered = <<>>
    /\ cleared = FALSE

\* --------------------------------------------------------- chat loop: model
\* A string is a sequence of tokens.  What the user types is spelled character
\* by character; a role name and a fixed text of the code are one token each.

\* str.lower() on the letters the typed lines are made of.
LowerChar(c) ==
    CASE c = "E" -> "e" [] c = "X" -> "x" [] c = "I" -> "i" [] c = "T" -> "t"
      [] c = "Q" -> "q" [] c = "U" -> "u" [] c = "A" -> "a" [] OTHER -> c

\* A comparison that tells upper case from lower case.
LowerNothing(s) == s

\* user_input.lower()
Lower(s) == [i \in 1..Len(s) |-> LowerChar(s[i])]

\* ('exit', 'quit')
ExitKeywords == { <<"e", "x", "i", "t">>, <<"q", "u", "i", "t">> }

\* What input("You: ") can return: exit keywords in several spellings, blank
\* lines, and messages.
InputLines ==
    { <<"e", "x", "i", "t">>, <<"Q", "u", "I", "T">>, <<" ", "E", "X", "I", "T">>,
      <<>>, <<" ", " ">>,
      <<"a">>, <<" ", "a", "b", " ">>, <<"e", "x">>, <<"A">> }

\* A run loop that hands blank input to process_message as well.
DispatchBlankToo(u) ==
    IF Lower(u) \in ExitKeywords THEN "exit" ELSE "process"

\* run(): what the loop does with the stripped line: the two tests of its body.
Dispatch(u) ==
    IF Lower(u) \in ExitKeywords THEN "exit"
    ELSE IF u = <<>> THEN "empty"
    ELSE "process"

\* What the call of the backend inside send_message can do: give a response
\* with a text (possibly empty), give None, give a response without a text,
\* raise APIError, or raise another Exception.
BackendOutcomes ==
    { [kind |-> "response", text |-> <<"b", "a">>],
      [kind |-> "response", text |-> <<>>],
      [kind |-> "none", text |-> <<>>],
      [kind |-> "no_text", text |-> <<>>],
      [kind |-> "APIError", text |-> <<"quota">>],
      [kind |-> "Exception", text |-> <<"boom">>] }

\* What a call of send_message comes to: a returned string, or an exception.
Returns(s) == [raises |-> "none", value |-> s]
Raises(e) == [raises |-> e, value |-> <<>>]

\* A send_message without its last except clause.
send_message_catching_api_errors_only(o) ==
    CASE o.kind = "APIError" -> Returns(<<"API Error: ">> \o o.text)
      [] o.kind = "Exception" -> Raises("Exception")
      [] o.kind = "none" -> Returns(<<"No response received">>)
      [] o.kind = "response" /\ o.text # <<>> -> Returns(o.text)
      [] OTHER -> Returns(<<"Invalid response structure">>)

\* GeminiLLMInterface.send_message, given what the backend call does.
send_message(o) ==
    CASE o.kind = "APIError" -> Returns(<<"API Error: ">> \o o.text)
      [] o.kind = "Exception" -> Returns(<<"Error: ">> \o o.text)
      [] o.kind = "none" -> Returns(<<"No response received">>)
      [] o.kind = "response" /\ o.text # <<>> -> Returns(o.text)
      [] OTHER -> Returns(<<"Invalid response structure">>)

\* The texts of print() in run().
Banner == <<"Chat session started. Type 'exit' or 'quit' to end.">>
ExitMessage == <<"Exiting chat...">>

\* The positions of run() inside its try statement.
InsideTry == {"input", "dispatch", "process"}

\* The positions of run() inside its while loop.
InsideLoop == InsideTry \cup {"continue", "loop_back"}

\* The variables a step of the chat loop leaves alone, besides the history's.
nonChatVars == <<slVars, launchVars, readVars, regVars, clientVars>>

\* A ChatLoop nobody has called.
ChatIdle ==
    /\ run_pc = "none"
    /\ pm_pc = "idle"
    /\ prompts = <<>>
    /\ user_input = <<>>
    /\ user_message = <<>>
    /\ context = <<>>
    /\ response = <<>>
    /\ pm_calls = <<>>
    /\ pm_returns = <<>>
    /\ llm_calls = <<>>
    /\ displayed = <<>>
    /\ interrupted_at = "none"
    /\ chat_escaped = {}

\* chat_loop.run() is called.
R_Start ==
    /\ run_pc = "none"
    /\ pm_pc = "idle"
    /\ pm_calls = <<>>
    /\ run_pc' = "banner"
    /\ UNCHANGED <<pm_pc, prompts, user_input, user_message, context, response,
                   pm_calls, pm_returns, llm_calls, displayed, interrupted_at,
                   chat_escaped, histVars, nonChatVars>>

\* run(): print("Chat session started. ...")
R_Banner ==
    /\ run_pc = "banner"
    /\ displayed' = Append(displayed, Banner)
    /\ run_pc' = "input"
    /\ UNCHANGED <<pm_pc, prompts, user_input, user_message, context, response,
                   pm_calls, pm_returns, llm_calls, interrupted_at, chat_escaped,
                   histVars, nonChatVars>>

\* run(): user_input = input("You: ").strip()
R_Input(l) ==
    /\ run_pc = "input"
    /\ Len(prompts) < MaxTurns
    /\ prompts' = Append(prompts, l)
    /\ user_input' = Strip(l)
    /\ run_pc' = "dispatch"
    /\ UNCHANGED <<pm_pc, user_message, context, response, pm_calls, pm_returns,
                   llm_calls, displayed, interrupted_at, chat_escaped, histVars,
                   nonChatVars>>

\* run(): the exit test with its print and break, the empty test, and the call
\* of process_message.
R_Dispatch ==
    /\ run_pc = "dispatch"
    /\ CASE Dispatch(user_input) = "exit" ->
              /\ displayed' = Append(displayed, ExitMessage)
              /\ run_pc' = "returned"
              /\ UNCHANGED <<pm_pc, user_message, pm_calls>>
         [] Dispatch(user_input) = "empty" ->
              /\ run_pc' = "continue"
              /\ UNCHANGED <<pm_pc, user_message, pm_calls, displayed>>
         [] OTHER ->
              /\ run_pc' = "process"
              /\ pm_pc' = "add_user"
              /\ user_message' = user_input
              /\ pm_calls' = Append(pm_calls, user_input)
              /\ UNCHANGED displayed
    /\ UNCHANGED <<prompts, user_input, context, response, pm_returns, llm_calls,
                   interrupted_at, chat_escaped, histVars, nonChatVars>>

\* run(): continue, the jump back to the head of the loop.
R_Continue ==
    /\ run_pc = "continue"
    /\ run_pc' = "input"
    /\ UNCHANGED <<pm_pc, prompts, user_input, user_message, context, response,
                   pm_calls, pm_returns, llm_calls, displayed, interrupted_at,
                   chat_escaped, histVars, nonChatVars>>

\* run(): the end of the loop body, the jump back to the head of the loop.
R_LoopBack ==
    /\ run_pc = "loop_back"
    /\ run_pc' = "input"
    /\ UNCHANGED <<pm_pc, prompts, user_input, user_message, context, response,
                   pm_calls, pm_returns, llm_calls, displayed, interrupted_at,
                   chat_escaped, histVars, nonChatVars>>

\* chat_loop.process_message(text), called by a caller other than run().
PM_Call(text) ==
    /\ run_pc = "none"
    /\ pm_pc = "idle"
    /\ Len(pm_calls) < MaxTurns
    /\ pm_pc' = "add_user"
    /\ user_message' = text
    /\ pm_calls' = Append(pm_calls, text)
    /\ UNCHANGED <<run_pc, prompts, user_input, context, response, pm_returns,
                   llm_calls, displayed, interrupted_at, chat_escaped, histVars,
                   nonChatVars>>

\* Mutant: process_message goes on to render without adding the user's message.
PM_AddUserSkipped ==
    /\ pm_pc = "add_user"
    /\ pm_pc' = "render"
    /\ UNCHANGED <<run_pc, prompts, user_input, user_message, context, response,
                   pm_calls, pm_returns, llm_calls, displayed, interrupted_at,
                   chat_escaped, histVars, nonChatVars>>

\* process_message: self.history_manager.add_message("user", user_message)
PM_AddUser ==
    /\ pm_pc = "add_user"
    /\ add_message("user", user_message)
    /\ pm_pc' = "render"
    /\ UNCHANGED <<run_pc, prompts, user_input, user_message, context, response,
                   pm_calls, pm_returns, llm_calls, displayed, interrupted_at,
                   chat_escaped, nonChatVars>>

\* process_message: context = self.history_manager.get_context_string()
PM_Render ==
    /\ pm_pc = "render"
    /\ context' = get_context_string(messages)
    /\ pm_pc' = "send"
    /\ UNCHANGED <<run_pc, prompts, user_input, user_message, response, pm_calls,
                   pm_returns, llm_calls, displayed, interrupted_at, chat_escaped,
                   histVars, nonChatVars>>

\* process_message: response = self.llm_client.send_message(context), the
\* backend doing o.  An exception of send_message would leave process_message,
\* which has no try statement, and run(), which catches KeyboardInterrupt only.
PM_Send(o) ==
    /\ pm_pc = "send"
    /\ llm_calls' = Append(llm_calls, context)
    /\ IF send_message(o).raises = "none"
       THEN /\ response' = send_message(o).value
            /\ pm_pc' = "display"
            /\ UNCHANGED <<run_pc, chat_escaped>>
       ELSE /\ pm_pc' = "idle"
            /\ run_pc' = IF run_pc = "process" THEN "raised" ELSE run_pc
            /\ chat_escaped' = chat_escaped \cup {send_message(o).raises}
            /\ UNCHANGED response
    /\ UNCHANGED <<prompts, user_input, user_message, context, pm_calls,
                   pm_returns, displayed, interrupted_at, histVars, nonChatVars>>

\* Mutant: a failed LLM call takes the user's message out of the history again.
PM_SendRaisesRollsBack ==
    /\ pm_pc = "send"
    /\ llm_calls' = Append(llm_calls, context)
    /\ pm_pc' = "idle"
    /\ run_pc' = IF run_pc = "process" THEN "raised" ELSE run_pc
    /\ chat_escaped' = chat_escaped \cup {"Exception"}
    /\ messages' = SubSeq(messages, 1, Len(messages) - 1)
    /\ current_chars' = current_chars - Len(messages[Len(messages)].content)
    /\ UNCHANGED <<prompts, user_input, user_message, context, response, pm_calls,
                   pm_returns, displayed, interrupted_at, max_chars, added, lastOp,
                   rendered, cleared, nonChatVars>>

\* process_message: response = self.llm_client.send_message(context), with an
\* llm_client whose send_message raises: the exception leaves process_message
\* and run().
PM_SendRaises ==
    /\ pm_pc = "send"
    /\ llm_calls' = Append(llm_calls, context)
    /\ pm_pc' = "idle"
    /\ run_pc' = IF run_pc = "process" THEN "raised" ELSE run_pc
    /\ chat_escaped' = chat_escaped \cup {"Exception"}
    /\ UNCHANGED <<prompts, user_input, user_message, context, response, pm_calls,
                   pm_returns, displayed, interrupted_at, histVars, nonChatVars>>

\* process_message: print(f"Assistant: {response}")
PM_Display ==
    /\ pm_pc = "display"
    /\ displayed' = Append(displayed, <<"Assistant: ">> \o response)
    /\ pm_pc' = "add_assistant"
    /\ UNCHANGED <<run_pc, prompts, user_input, user_message, context, response,
                   pm_calls, pm_returns, llm_calls, interrupted_at, chat_escaped,
                   histVars, nonChatVars>>

\* Mutant: the reply is added to the history as a user's message.
PM_AddReplyAsUser ==
    /\ pm_pc = "add_assistant"
    /\ add_message("user", response)
    /\ pm_pc' = "return"
    /\ UNCHANGED <<run_pc, prompts, user_input, user_message, context, response,
                   pm_calls, pm_returns, llm_calls, displayed, interrupted_at,
                   chat_escaped, nonChatVars>>

\* process_message: self.history_manager.add_message("assistant", response)
PM_AddAssistant ==
    /\ pm_pc = "add_assistant"
    /\ add_message("assistant", response)
    /\ pm_pc' = "return"
    /\ UNCHANGED <<run_pc, prompts, user_input, user_message, context, response,
                   pm_calls, pm_returns, llm_calls, displayed, interrupted_at,
                   chat_escaped, nonChatVars>>

\* process_message: return response; in run() the loop body has ended.
PM_Return ==
    /\ pm_pc = "return"
    /\ pm_returns' = Append(pm_returns, response)
    /\ pm_pc' = "idle"
    /\ run_pc' = IF run_pc = "process" THEN "loop_back" ELSE run_pc
    /\ UNCHANGED <<prompts, user_input, user_message, context, response, pm_calls,
                   llm_calls, displayed, interrupted_at, chat_escaped, histVars,
                   nonChatVars>>

\* KeyboardInterrupt is raised in run(), once, wherever run() is: inside the
\* try statement (a process_message under way is abandoned) the except clause
\* takes it; at the banner and at the two jumps back to the head of the loop,
\* which the try statement does not cover, it leaves run().
R_Interrupt ==
    /\ run_pc \in InsideLoop \cup {"banner"}
    /\ interrupted_at = "none"
    /\ interrupted_at' = run_pc
    /\ pm_pc' = "idle"
    /\ IF run_pc \in InsideTry
       THEN /\ run_pc' = "handler"
            /\ UNCHANGED chat_escaped
       ELSE /\ run_pc' = "raised"
            /\ chat_escaped' = chat_escaped \cup {"KeyboardInterrupt"}
    /\ UNCHANGED <<prompts, user_input, user_message, context, response, pm_calls,
                   pm_returns, llm_calls, displayed, histVars, nonChatVars>>

\* run(): except KeyboardInterrupt: print("\nExiting chat..."); break
R_Handler ==
    /\ run_pc = "handler"
    /\ displayed' = Append(displayed, <<"\n">> \o ExitMessage)
    /\ run_pc' = "returned"
    /\ UNCHANGED <<pm_pc, prompts, user_input, user_message, context, response,
                   pm_calls, pm_returns, llm_calls, interrupted_at, chat_escaped,
                   histVars, nonChatVars>>

\* The texts process_message is called with by callers other than run().
DirectTexts == { <<"a", "b">>, <<>> }

\* -------------------------------------------------- launch_server: model
\* The placeholder of a configuration string, as one token of the string.
Placeholder == "${workspaceFolder}"

\* ServerLauncher.workspace_path (its default), as a string of one token.
workspace_path == <<"c:/Software/mcp/clients/gemini">>

\* A replacement of the first placeholder of a string only.
RECURSIVE ReplaceFirstOnly(_)
ReplaceFirstOnly(part) ==
    IF part = <<>> THEN <<>>
    ELSE IF Head(part) = Placeholder THEN workspace_path \o Tail(part)
    ELSE <<Head(part)>> \o ReplaceFirstOnly(Tail(part))

\* part.replace("${workspaceFolder}", self.workspace_path) on a string of tokens.
RECURSIVE ReplacePlaceholder(_)
ReplacePlaceholder(part) ==
    IF part = <<>> THEN <<>>
    ELSE (IF Head(part) = Placeholder THEN workspace_path ELSE <<Head(part)>>)
         \o ReplacePlaceholder(Tail(part))

\* _resolve_workspace_path(parts)
ResolveWorkspacePath(parts) ==
    [i \in 1..Len(parts) |-> ReplacePlaceholder(parts[i])]

\* The configurations launch_server is called with: complete, without 'args',
\* without 'command', and with neither.
LaunchConfigs ==
    { [command |-> << <<"python">> >>, args |-> << <<Placeholder, "/workspace/">> >>],
      [command |-> << <<"python">> >>],
      [args |-> << <<"-v">> >>],
      [name |-> <<"incomplete">>] }

\* What subprocess.Popen does: it starts the child, or raises.
SpawnOutcomes == {"ok", "SubprocessError", "FileNotFoundError", "PermissionError"}

\* The lines the child writes to each of its streams.
LinesOf(s) == IF s = "stdout" THEN { <<"a", "\n">> } ELSE { <<"b", "\n">> }

\* Except clauses that log a spawn failure only.
ErrorLoggedForSpawnOnly(e, detail) ==
    IF e = "SubprocessError" THEN << <<"Failed to launch server", detail>> >>
    ELSE <<>>

\* The except clauses of launch_server: the message logged for an exception,
\* or none for an exception they do not name.
ErrorLogged(e, detail) ==
    IF e = "KeyError" THEN << <<"Missing required config key", detail>> >>
    ELSE IF e = "SubprocessError" THEN << <<"Failed to launch server", detail>> >>
    ELSE <<>>

\* ServerLauncher(): __init__ sets workspace_path and, in _setup_logging, logger.
NewLauncher == [workspace_path |-> workspace_path, logger |-> "mcp.server_launcher"]

\* launch_server has not been called.
LaunchIdle ==
    /\ launcher = NewLauncher
    /\ loggers = <<>>
    /\ launch_pc = "idle"
    /\ server_config = [name |-> <<"none">>]
    /\ full_command = <<>>
    /\ popen_calls = <<>>
    /\ process = "none"
    /\ error_log = <<>>
    /\ pending = "none"
    /\ outcome = "none"

\* An exception e leaves launch_server through its except clauses.
LaunchRaises(e, detail) ==
    /\ error_log' = error_log \o ErrorLogged(e, detail)
    /\ outcome' = e
    /\ launch_pc' = "raised"

\* launch_server(server_config), up to full_command = command + args.
L_Call(c) ==
    /\ launch_pc = "idle"
    /\ server_config' = c
    /\ IF "command" \notin DOMAIN c
       THEN LaunchRaises("KeyError", "command") /\ UNCHANGED full_command
       ELSE IF "args" \notin DOMAIN c
       THEN LaunchRaises("KeyError", "args") /\ UNCHANGED full_command
       ELSE /\ full_command' =
                  ResolveWorkspacePath(c.command) \o ResolveWorkspacePath(c.args)
            /\ launch_pc' = "popen"
            /\ UNCHANGED <<error_log, outcome>>
    /\ UNCHANGED <<launcher, loggers>>
    /\ UNCHANGED <<popen_calls, process, pending, histVars, slVars, chatVars,
                   readVars, regVars, clientVars>>

\* process = subprocess.Popen(full_command, ...)
L_Popen(o) ==
    /\ launch_pc = "popen"
    /\ popen_calls' = Append(popen_calls, full_command)
    /\ IF o = "ok"
       THEN /\ process' = "running"
            /\ launch_pc' = "enter_out"
            /\ UNCHANGED <<error_log, outcome>>
       ELSE /\ LaunchRaises(o, "popen")
            /\ UNCHANGED process
    /\ UNCHANGED <<launcher, loggers>>
    /\ UNCHANGED <<server_config, full_command, pending, histVars, slVars,
                   chatVars, readVars, regVars, clientVars>>

\* _start_output_logger(stream, logger_method): the StreamLogger it returns.
start_output_logger(stream, logger_method) ==
    [stream |-> stream, logger_method |-> logger_method]

\* start() when the thread cannot be started: _thread is set and never alive.
StartFails(s) ==
    /\ thread[s] = "none"
    /\ thread' = [thread EXCEPT ![s] = "unstarted"]
    /\ UNCHANGED <<stream_kind, close_fails, stream_buf, stream_eof, stream_closed,
                   close_calls, produced, line, thread_exit, stop_event, sink,
                   stop_pc, stops, stop_did, escaped, nonCallVars>>

\* with self._start_output_logger(process.stdout, self.logger.info): __enter__
L_EnterOut(ok) ==
    /\ launch_pc = "enter_out"
    /\ loggers' = Append(loggers, start_output_logger("stdout", "info"))
    /\ IF ok
       THEN /\ Start("stdout")
            /\ launch_pc' = "enter_err"
            /\ UNCHANGED <<error_log, outcome>>
       ELSE /\ StartFails("stdout")
            /\ LaunchRaises("RuntimeError", "start")
    /\ UNCHANGED launcher
    /\ UNCHANGED <<server_config, full_command, popen_calls, process, pending>>

\* Mutant: the stderr logger is given the info method as well.
L_EnterErrToInfo(ok) ==
    /\ launch_pc = "enter_err"
    /\ loggers' = Append(loggers, start_output_logger("stderr", "info"))
    /\ IF ok
       THEN /\ Start("stderr")
            /\ launch_pc' = "exit_err"
            /\ UNCHANGED pending
       ELSE /\ StartFails("stderr")
            /\ launch_pc' = "exit_out"
            /\ pending' = "RuntimeError"
    /\ UNCHANGED launcher
    /\ UNCHANGED <<server_config, full_command, popen_calls, process, error_log,
                   outcome>>

\* with ..., self._start_output_logger(process.stderr, self.logger.error):
\* __enter__, and the body of the with statement, which is pass.
L_EnterErr(ok) ==
    /\ launch_pc = "enter_err"
    /\ loggers' = Append(loggers, start_output_logger("stderr", "error"))
    /\ IF ok
       THEN /\ Start("stderr")
            /\ launch_pc' = "exit_err"
            /\ UNCHANGED pending
       ELSE /\ StartFails("stderr")
            /\ launch_pc' = "exit_out"
            /\ pending' = "RuntimeError"
    /\ UNCHANGED launcher
    /\ UNCHANGED <<server_config, full_command, popen_calls, process, error_log,
                   outcome>>

\* The with statement ends: __exit__ of the stderr logger calls stop().
L_ExitErr ==
    /\ launch_pc = "exit_err"
    /\ StopBegin("stderr")
    /\ launch_pc' = "stopping_err"
    /\ UNCHANGED <<launcher, loggers>>
    /\ UNCHANGED <<server_config, full_command, popen_calls, process, error_log,
                   pending, outcome>>

\* An end of the with statement that leaves the stdout logger running when the
\* stderr logger failed to start.
L_ExitOutOnlyAfterErr ==
    /\ \/ /\ launch_pc = "stopping_err" /\ stop_pc["stderr"] = "idle"
          /\ StopBegin("stdout")
       \/ /\ launch_pc = "exit_out"
          /\ UNCHANGED <<slVars, nonCallVars>>
    /\ launch_pc' = "stopping_out"
    /\ UNCHANGED <<launcher, loggers>>
    /\ UNCHANGED <<server_config, full_command, popen_calls, process, error_log,
                   pending, outcome>>

\* The with statement ends: __exit__ of the stdout logger calls stop(), once
\* that of the stderr logger has returned or when the stderr logger failed to start.
L_ExitOut ==
    /\ \/ launch_pc = "stopping_err" /\ stop_pc["stderr"] = "idle"
       \/ launch_pc = "exit_out"
    /\ StopBegin("stdout")
    /\ launch_pc' = "stopping_out"
    /\ UNCHANGED <<launcher, loggers>>
    /\ UNCHANGED <<server_config, full_command, popen_calls, process, error_log,
                   pending, outcome>>

\* A return that keeps the handle in the launcher as well.
L_ReturnKeepsHandle ==
    /\ launch_pc = "stopping_out"
    /\ stop_pc["stdout"] = "idle"
    /\ IF pending = "none"
       THEN /\ outcome' = "process"
            /\ launch_pc' = "returned"
            /\ UNCHANGED error_log
       ELSE LaunchRaises(pending, "start")
    /\ launcher' = [workspace_path |-> launcher.workspace_path,
                    logger |-> launcher.logger, process |-> process]
    /\ UNCHANGED loggers
    /\ UNCHANGED <<server_config, full_command, popen_calls, process, pending,
                   histVars, slVars, chatVars, readVars, regVars, clientVars>>

\* return process, or the pending exception goes on to the caller.
L_Return ==
    /\ launch_pc = "stopping_out"
    /\ stop_pc["stdout"] = "idle"
    /\ IF pending = "none"
       THEN /\ outcome' = "process"
            /\ launch_pc' = "returned"
            /\ UNCHANGED error_log
       ELSE LaunchRaises(pending, "start")
    /\ UNCHANGED <<launcher, loggers>>
    /\ UNCHANGED <<server_config, full_command, popen_calls, process, pending,
                   histVars, slVars, chatVars, readVars, regVars, clientVars>>

\* The child writes a line to one of its streams.
LaunchChildWrite(s) ==
    /\ process = "running"
    /\ \E l \in LinesOf(s) : ChildWrite(s, l)

\* The child closes one of its streams (at the latest when it exits).
LaunchChildExit(s) ==
    /\ process = "running"
    /\ ChildExit(s)

\* ------------------------------------------------ read_servers_json: model
\* A configuration document is a sequence of tokens: "[" and "]" are JSON's,
\* "x" is a word JSON does not have.  The JSON values over them are the nested
\* empty arrays [], [[]], ...
DocTokens == {"[", "]", "x"}

Texts == UNION { [1..n -> DocTokens] : n \in 0..MaxDocLen }

\* What filename can name: no file, a file whose bytes are not UTF-8, or a
\* file of UTF-8 text.
ConfigFiles ==
    { [kind |-> "missing", text |-> <<>>], [kind |-> "not_utf8", text |-> <<>>] }
    \cup { [kind |-> "utf8", text |-> t] : t \in Texts }

\* The JSON decoder on the tokens t: whether a value starts t, the value, and
\* the tokens after it.
RECURSIVE ScanValue(_)
ScanValue(t) ==
    LET fails == [ok |-> FALSE, value |-> <<>>, rest |-> <<>>] IN
    IF t = <<>> \/ Head(t) # "[" THEN fails
    ELSE IF Len(t) >= 2 /\ t[2] = "]"
    THEN [ok |-> TRUE, value |-> <<>>, rest |-> SubSeq(t, 3, Len(t))]
    ELSE LET inner == ScanValue(Tail(t)) IN
         IF inner.ok /\ inner.rest # <<>> /\ Head(inner.rest) = "]"
         THEN [ok |-> TRUE, value |-> <<inner.value>>, rest |-> Tail(inner.rest)]
         ELSE fails

\* json.loads(t): the value t spells, whitespace before and after it skipped,
\* or JSONDecodeError when no value starts t or other tokens follow the value.
json_loads(t) ==
    LET r == ScanValue(StripLeft(t)) IN
    IF r.ok /\ StripLeft(r.rest) = <<>>
    THEN Returns(r.value)
    ELSE Raises("JSONDecodeError")

\* json.load(f) on a file opened with encoding='utf-8': f.read() decodes the
\* bytes, then json.loads parses the text.
json_load(f) ==
    IF f.kind = "not_utf8" THEN Raises("UnicodeDecodeError") ELSE json_loads(f.text)

\* The except clauses of read_servers_json: the message logged for an
\* exception, or none for an exception they do not name.
ReadErrorLogged(e) ==
    IF e = "FileNotFoundError" THEN <<"Config file not found">>
    ELSE IF e = "JSONDecodeError" THEN <<"Invalid JSON in config file">>
    ELSE <<>>

\* read_servers_json has not been called.
ReadIdle ==
    /\ read_pc = "idle"
    /\ config_file = [kind |-> "missing", text |-> <<>>]
    /\ read_raised = "none"
    /\ read_errors = <<>>
    /\ read_result = Returns(<<>>)

\* The variables a step of read_servers_json leaves alone.
nonReadVars == <<histVars, slVars, launchVars, chatVars, regVars, clientVars>>

\* launcher.read_servers_json(filename), filename naming f
RS_Call(f) ==
    /\ read_pc = "idle"
    /\ config_file' = f
    /\ read_pc' = "open"
    /\ UNCHANGED <<read_raised, read_errors, read_result, nonReadVars>>

\* open(filename, 'r', encoding='utf-8')
RS_Open ==
    /\ read_pc = "open"
    /\ IF config_file.kind = "missing"
       THEN /\ read_raised' = "FileNotFoundError"
            /\ read_pc' = "except"
       ELSE /\ read_pc' = "load"
            /\ UNCHANGED read_raised
    /\ UNCHANGED <<config_file, read_errors, read_result, nonReadVars>>

\* return json.load(f)
RS_Load ==
    /\ read_pc = "load"
    /\ LET r == json_load(config_file) IN
       IF r.raises = "none"
       THEN /\ read_result' = r
            /\ read_pc' = "done"
            /\ UNCHANGED read_raised
       ELSE /\ read_raised' = r.raises
            /\ read_pc' = "except"
            /\ UNCHANGED read_result
    /\ UNCHANGED <<config_file, read_errors, nonReadVars>>

\* The except clauses: the exception is logged if one of them names it, and
\* leaves the call.
RS_Except ==
    /\ read_pc = "except"
    /\ read_errors' = read_errors \o ReadErrorLogged(read_raised)
    /\ read_result' = Raises(read_raised)
    /\ read_pc' = "done"
    /\ UNCHANGED <<config_file, read_raised, nonReadVars>>

\* ----------------------------------------------------- ToolRegistry: model
ToolNames == {"test_tool", "tool1"}

\* ToolSchema objects: two per name, told apart by their description.
ToolSchemas ==
    { [name |-> n, description |-> d] :
        n \in ToolNames, d \in {"Test tool 1", "Test tool 2"} }

\* The empty dict.
EmptyDict == [n \in {} |-> n]

\* The variables a call on the registry leaves alone.
nonRegVars == <<histVars, slVars, launchVars, chatVars, readVars, clientVars>>

\* ToolRegistry()
RegIdle ==
    /\ tools = EmptyDict
    /\ first_given = EmptyDict
    /\ reg_call = [op |-> "init"]
    /\ reg_result = Returns("None")

\* Mutant: a register call replaces the schema of a registered name.
RegisterReplaces(tool_name, tool_schema) ==
    /\ reg_call' = [op |-> "register", tool_name |-> tool_name,
                    tool_schema |-> tool_schema]
    /\ tools' = [n \in DOMAIN tools \cup {tool_name} |->
                    IF n = tool_name THEN tool_schema ELSE tools[n]]
    /\ reg_result' = Returns("None")
    /\ first_given' = IF tool_name \in DOMAIN first_given THEN first_given
                      ELSE first_given @@ (tool_name :> tool_schema)
    /\ UNCHANGED nonRegVars

\* registry.register(tool_name, tool_schema)
Register(tool_name, tool_schema) ==
    /\ reg_call' = [op |-> "register", tool_name |-> tool_name,
                    tool_schema |-> tool_schema]
    /\ IF tool_name \in DOMAIN tools
       THEN /\ reg_result' = Raises("ValueError")
            /\ UNCHANGED tools
       ELSE /\ tools' = tools @@ (tool_name :> tool_schema)
            /\ reg_result' = Returns("None")
    /\ first_given' = IF tool_name \in DOMAIN first_given THEN first_given
                      ELSE first_given @@ (tool_name :> tool_schema)
    /\ UNCHANGED nonRegVars

\* registry.get(tool_name)
Get(tool_name) ==
    /\ reg_call' = [op |-> "get", tool_name |-> tool_name]
    /\ reg_result' = IF tool_name \notin DOMAIN tools THEN Raises("KeyError")
                     ELSE Returns(tools[tool_name])
    /\ UNCHANGED <<tools, first_given, nonRegVars>>

\* registry.list_tools(): a copy of the dict
ListTools ==
    /\ reg_call' = [op |-> "list_tools"]
    /\ reg_result' = Returns(tools)
    /\ UNCHANGED <<tools, first_given, nonRegVars>>

\* ------------------------------------------------------- MCP client: model
\* The records the client sends and receives, as JSON values.
ToolRecords == { <<>>, << <<>> >> }

\* json.dumps(v): the tokens that spell the value v.
RECURSIVE json_dumps(_)
json_dumps(v) ==
    IF v = <<>> THEN <<"[", "]">> ELSE <<"[">> \o json_dumps(v[1]) \o <<"]">>

\* The lines the other side can write to the client's standard input: records,
\* a blank line, and a line that is not JSON.
ResultLines ==
    { json_dumps(v) \o <<"\n">> : v \in ToolRecords } \cup { <<"\n">>, <<"x", "\n">> }

RECURSIVE Concat(_)
Concat(ls) == IF ls = <<>> THEN <<>> ELSE Head(ls) \o Concat(Tail(ls))

\* What standard input can hold: at most MaxResults lines.
Inputs == { Concat(ls) : ls \in UNION { [1..n -> ResultLines] : n \in 0..MaxResults } }

\* The index of the first newline of t, or Len(t) when it has none.
RECURSIVE LineEnd(_, _)
LineEnd(t, i) ==
    IF i >= Len(t) \/ t[i] = "\n" THEN Min(i, Len(t)) ELSE LineEnd(t, i + 1)

\* The variables a step of the client leaves alone.
nonClientVars == <<histVars, slVars, launchVars, chatVars, readVars, regVars>>

\* The client before any call: nothing written.
ClientIdle ==
    /\ client_pc = "idle"
    /\ tool_call = <<>>
    /\ tool_calls = <<>>
    /\ stdout_buf = <<>>
    /\ stdout_sent = <<>>
    /\ stdin = <<>>
    /\ result_line = <<>>
    /\ client_result = Returns(<<>>)

\* process_tool_call(tool_call) is called.
P_Call(v) ==
    /\ client_pc = "idle"
    /\ Len(tool_calls) < MaxCalls
    /\ tool_call' = v
    /\ tool_calls' = Append(tool_calls, v)
    /\ client_pc' = "dump"
    /\ UNCHANGED <<stdout_buf, stdout_sent, stdin, result_line, client_result,
                   nonClientVars>>

\* json.dump(tool_call, sys.stdout)
P_Dump ==
    /\ client_pc = "dump"
    /\ stdout_buf' = stdout_buf \o json_dumps(tool_call)
    /\ client_pc' = "newline"
    /\ UNCHANGED <<tool_call, tool_calls, stdout_sent, stdin, result_line,
                   client_result, nonClientVars>>

\* sys.stdout.write('\n')
P_Newline ==
    /\ client_pc = "newline"
    /\ stdout_buf' = stdout_buf \o <<"\n">>
    /\ client_pc' = "flush"
    /\ UNCHANGED <<tool_call, tool_calls, stdout_sent, stdin, result_line,
                   client_result, nonClientVars>>

\* Mutant: the call returns without flushing.
P_ReturnUnflushed ==
    /\ client_pc = "flush"
    /\ client_pc' = "idle"
    /\ UNCHANGED <<tool_call, tool_calls, stdout_buf, stdout_sent, stdin,
                   result_line, client_result, nonClientVars>>

\* sys.stdout.flush(), and the call returns.
P_Flush ==
    /\ client_pc = "flush"
    /\ stdout_sent' = stdout_sent \o stdout_buf
    /\ stdout_buf' = <<>>
    /\ client_pc' = "idle"
    /\ UNCHANGED <<tool_call, tool_calls, stdin, result_line, client_result,
                   nonClientVars>>

\* sys.stdout empties its buffer by itself (a full buffer, or a line-buffered
\* stream after a newline).
StdoutDrains ==
    /\ stdout_buf # <<>>
    /\ stdout_sent' = stdout_sent \o stdout_buf
    /\ stdout_buf' = <<>>
    /\ UNCHANGED <<client_pc, tool_call, tool_calls, stdin, result_line,
                   client_result, nonClientVars>>

\* read_tool_result() is called.
R_Call ==
    /\ client_pc = "idle"
    /\ client_pc' = "readline"
    /\ UNCHANGED <<tool_call, tool_calls, stdout_buf, stdout_sent, stdin,
                   result_line, client_result, nonClientVars>>

\* line = sys.stdin.readline(): the text up to the first newline and that
\* newline, or what is left at the end of the input.
R_Readline ==
    /\ client_pc = "readline"
    /\ result_line' = SubSeq(stdin, 1, LineEnd(stdin, 1))
    /\ stdin' = SubSeq(stdin, LineEnd(stdin, 1) + 1, Len(stdin))
    /\ client_pc' = "loads"
    /\ UNCHANGED <<tool_call, tool_calls, stdout_buf, stdout_sent, client_result,
                   nonClientVars>>

\* return json.loads(line)
R_Loads ==
    /\ client_pc = "loads"
    /\ client_result' = json_loads(result_line)
    /\ client_pc' = "idle"
    /\ UNCHANGED <<tool_call, tool_calls, stdout_buf, stdout_sent, stdin,
                   result_line, nonClientVars>>

\* A launcher whose Popen gives pipes, or mocks as the tests' patched Popen does.
LaunchInit ==
    /\ HistIdle
    /\ ChatIdle
    /\ LaunchIdle
    /\ ReadIdle /\ RegIdle /\ ClientIdle
    /\ \E k \in StreamKinds : stream_kind = [s \in Streams |-> k]
    /\ close_fails = [s \in Streams |-> FALSE]
    /\ \E so \in Scripts(LinesOf("stdout")), se \in Scripts(LinesOf("stderr")) :
         SLStart([s \in Streams |->
                    IF stream_kind[s] = "pipe" THEN <<>>
                    ELSE IF s = "stdout" THEN so ELSE se])

LaunchNext ==
    \/ \E c \in LaunchConfigs : L_Call(c)
    \/ \E o \in SpawnOutcomes : L_Popen(o)
    \/ \E ok \in BOOLEAN : L_EnterOut(ok)
    \/ \E ok \in BOOLEAN : L_EnterErr(ok)
    \/ L_ExitErr
    \/ L_ExitOut
    \/ L_Return
    \/ \E s \in Streams : StopClose(s)
    \/ \E s \in Streams : StopJoin(s)
    \/ \E s \in Streams : T_Loop(s)
    \/ \E s \in Streams : T_Read(s)
    \/ \E s \in Streams : T_Log(s)
    \/ \E s \in Streams : T_Finally(s)
    \/ \E s \in Streams : LaunchChildWrite(s)
    \/ \E s \in Streams : LaunchChildExit(s)

\* The stream of the logger that is driven on its own.
Attached == "stdout"

\* StreamLogger(stream, logger_method) on a stream of either kind.
LoggerInit ==
    /\ HistIdle
    /\ ChatIdle
    /\ LaunchIdle
    /\ ReadIdle /\ RegIdle /\ ClientIdle
    /\ \E k \in StreamKinds, f \in BOOLEAN :
         /\ stream_kind = [s \in Streams |-> IF s = Attached THEN k ELSE "pipe"]
         /\ close_fails = [s \in Streams |-> IF s = Attached THEN f ELSE FALSE]
    /\ \E sc \in Scripts(Lines) :
         SLStart([s \in Streams |->
                    IF stream_kind[s] = "mock" /\ s = Attached THEN sc ELSE <<>>])

\* start() by the owner of the logger, who is not inside a stop() call.
LoggerStart ==
    /\ stop_pc[Attached] = "idle"
    /\ Start(Attached)
    /\ UNCHANGED launchVars

\* stop() by the owner of the logger.
LoggerStop ==
    /\ StopBegin(Attached)
    /\ UNCHANGED launchVars

LoggerNext ==
    \/ LoggerStart
    \/ LoggerStop
    \/ StopClose(Attached)
    \/ StopJoin(Attached)
    \/ T_Loop(Attached)
    \/ T_Read(Attached)
    \/ T_Log(Attached)
    \/ T_Finally(Attached)
    \/ \E l \in Lines : ChildWrite(Attached, l)
    \/ ChildExit(Attached)

\* The steps of the logging thread.
LoggerThread ==
    T_Loop(Attached) \/ T_Read(Attached) \/ T_Log(Attached) \/ T_Finally(Attached)

\* A ChatLoop over an empty history, with any small max_chars or the default.
ChatInit ==
    /\ max_chars \in (0..MaxCap) \cup {DefaultMaxChars}
    /\ messages = <<>>
    /\ current_chars = 0
    /\ added = <<>>
    /\ lastOp = "init"
    /\ rendered = <<>>
    /\ cleared = FALSE
    /\ SLIdle
    /\ LaunchIdle
    /\ ReadIdle /\ RegIdle /\ ClientIdle
    /\ ChatIdle

ChatNext ==
    \/ R_Start
    \/ R_Banner
    \/ \E l \in InputLines : R_Input(l)
    \/ R_Dispatch
    \/ R_Continue
    \/ R_LoopBack
    \/ R_Interrupt
    \/ R_Handler
    \/ \E text \in DirectTexts : PM_Call(text)
    \/ PM_AddUser
    \/ PM_Render
    \/ \E o \in BackendOutcomes : PM_Send(o)
    \/ PM_Display
    \/ PM_AddAssistant
    \/ PM_Return

vars == <<histVars, slVars, launchVars, chatVars, readVars, regVars, clientVars>>

Init == HistInit /\ SLIdle /\ LaunchIdle /\ ChatIdle /\ ReadIdle /\ RegIdle /\ ClientIdle

Next ==
    \/ \E role \in Roles, content \in Contents : AddMessage(role, content)
    \/ GetContextString
    \/ Clear

\* A history driven by any sequence of add_message, get_context_string and
\* clear calls.
Spec == Init /\ [][Next]_vars

\* One StreamLogger driven by start() and stop() calls at any point, while the
\* stream's writer writes lines and closes its end.
SpecLogger == LoggerInit /\ [][LoggerNext]_vars

\* One launch_server call, its two loggers and the child's two streams.
SpecLaunch == LaunchInit /\ [][LaunchNext]_vars

\* A chat loop run by a user, or its process_message called directly.
SpecChat == ChatInit /\ [][ChatNext]_vars

\* The elements of 'command' and 'args': strings of at most MaxPartLen tokens,
\* each the placeholder or a piece of other text.
ConfigParts == UNION { [1..n -> {Placeholder, "x"}] : n \in 0..MaxPartLen }

\* Lists of at most MaxParts elements.
PartLists == UNION { [1..n -> ConfigParts] : n \in 0..MaxParts }

\* Two lists: none, and one element that is all placeholder and text.
FewPartLists == { <<>>, << <<Placeholder, "x", Placeholder>> >> }

\* Complete configurations, one of 'command' and 'args' any list of elements.
ResolveConfigs ==
    { [command |-> p, args |-> q] : p \in PartLists, q \in FewPartLists }
    \cup { [command |-> q, args |-> p] : p \in PartLists, q \in FewPartLists }

ResolveInit == HistIdle /\ ChatIdle /\ SLIdle /\ LaunchIdle /\ ReadIdle /\ RegIdle /\ ClientIdle

ResolveNext ==
    /\ launch_pc = "idle"
    /\ \E c \in ResolveConfigs : L_Call(c)

\* launch_server called with any complete configuration, up to the command
\* it builds.
SpecResolve == ResolveInit /\ [][ResolveNext]_vars

ReadInit == HistIdle /\ ChatIdle /\ SLIdle /\ LaunchIdle /\ ReadIdle /\ RegIdle /\ ClientIdle

ReadNext ==
    \/ \E f \in ConfigFiles : RS_Call(f)
    \/ RS_Open
    \/ RS_Load
    \/ RS_Except

\* One read_servers_json call on any configuration file.
SpecRead == ReadInit /\ [][ReadNext]_vars

RegInit == HistIdle /\ ChatIdle /\ SLIdle /\ LaunchIdle /\ ReadIdle /\ RegIdle /\ ClientIdle

RegNext ==
    \/ \E n \in ToolNames, sc \in ToolSchemas : Register(n, sc)
    \/ \E n \in ToolNames : Get(n)
    \/ ListTools

\* A registry driven by any sequence of register, get and list_tools calls.
SpecRegistry == RegInit /\ [][RegNext]_vars

ClientInit ==
    /\ HistIdle /\ ChatIdle /\ SLIdle /\ LaunchIdle /\ ReadIdle /\ RegIdle
    /\ client_pc = "idle"
    /\ tool_call = <<>>
    /\ tool_calls = <<>>
    /\ stdout_buf = <<>>
    /\ stdout_sent = <<>>
    /\ stdin \in Inputs
    /\ result_line = <<>>
    /\ client_result = Returns(<<>>)

ClientNext ==
    \/ \E v \in ToolRecords : P_Call(v)
    \/ P_Dump
    \/ P_Newline
    \/ P_Flush
    \/ StdoutDrains
    \/ R_Call
    \/ R_Readline
    \/ R_Loads

\* A client that makes process_tool_call and read_tool_result calls in any
\* order, with any input waiting on its standard input.
SpecClient == ClientInit /\ [][ClientNext]_vars

\* A ChatLoop whose llm_client is any LLMInterface: its send_message returns
\* what GeminiLLMInterface's does, or raises.
ChatAnyClientNext == ChatNext \/ PM_SendRaises

SpecChatAnyClient == ChatInit /\ [][ChatAnyClientNext]_vars

\* ------------------------------------------------------- history: claims

\* The message last given to add_message.
LastAdded == added[Len(added)]

\* What a content becomes when stored: itself, or its first max_chars characters.
Stored(c) == IF Len(c) > max_chars THEN SlicePrefix(c, max_chars) ELSE c

\* C1: after every add_message and clear call, _current_chars equals the sum of
\* the content lengths of the messages held.
C1_CountIsSum == current_chars = SumChars(messages)

\* C1's case: an add evicted a message and the count followed.
C1_Witness ==
    /\ lastOp = "add"
    /\ Len(messages) >= 2
    /\ Len(messages) < Len(added)
    /\ current_chars > 0

\* C2: after every add_message call the history holds at most max_chars
\* characters, by its count and by its contents; a message given longer than
\* max_chars is held only as a single message of exactly max_chars characters.
C2_AtMostMaxChars ==
    lastOp = "add" =>
        /\ current_chars <= max_chars
        /\ SumChars(messages) <= max_chars
        /\ Len(LastAdded.content) > max_chars =>
               /\ Len(messages) = 1
               /\ Len(messages[1].content) = max_chars

\* C2's case: a message longer than max_chars was added to a non-empty history.
C2_Witness ==
    /\ lastOp = "add"
    /\ Len(added) >= 2
    /\ max_chars > 0
    /\ Len(LastAdded.content) > max_chars
    /\ Len(messages) = 1

\* C3: the messages held are the last Len(messages) messages added since
\* creation or the last clear(), in the order they were added, each as it is
\* stored (its content, or its max_chars-prefix).
C3_HeldIsSuffixOfAdded ==
    /\ Len(messages) <= Len(added)
    /\ \A i \in 1..Len(messages) :
         LET a == added[Len(added) - Len(messages) + i] IN
         /\ messages[i].role = a.role
         /\ messages[i].content = Stored(a.content)

\* C3's case: the test's shape, two messages filling the history and a third
\* that evicts the first, with the three told apart.
C3_Witness ==
    /\ Len(added) = 3
    /\ Len(messages) = 2
    /\ added[1] # added[2]
    /\ added[2] # added[3]
    /\ Len(added[1].content) + Len(added[2].content) = max_chars
    /\ messages = <<added[2], added[3]>>

\* C4: an add_message call with content longer than max_chars leaves exactly one
\* message, with the given role and the first max_chars characters of the given
\* content, and _current_chars = max_chars.
C4_OversizedIsTruncated ==
    (lastOp = "add" /\ Len(LastAdded.content) > max_chars) =>
        /\ messages = <<[role |-> LastAdded.role,
                         content |-> SubSeq(LastAdded.content, 1, max_chars)]>>
        /\ current_chars = max_chars

\* C4's case: an oversized message whose prefix and suffix differ was added to
\* a history that held earlier messages.
C4_Witness ==
    /\ lastOp = "add"
    /\ Len(added) >= 2
    /\ max_chars = 1
    /\ Len(LastAdded.content) = 2
    /\ messages[1].content = <<LastAdded.content[1]>>

\* C5: after every add_message call the history is not empty and its last
\* message is the one just added: the same role, and the content given or its
\* first max_chars characters.
C5_LastIsTheAdded ==
    lastOp = "add" =>
        /\ Len(messages) >= 1
        /\ messages[Len(messages)].role = LastAdded.role
        /\ \/ messages[Len(messages)].content = LastAdded.content
           \/ messages[Len(messages)].content =
                  SubSeq(LastAdded.content, 1, max_chars)

\* C5's case: an add evicted every earlier message and kept the new one whole.
C5_Witness ==
    /\ lastOp = "add"
    /\ Len(added) = 3
    /\ Len(messages) = 1
    /\ messages[1] = LastAdded
    /\ Len(LastAdded.content) = max_chars
    /\ max_chars > 0

\* ------------------------------------------------- stream logger: claims

\* The fair version of SpecLogger: the logging thread is an OS thread, which
\* the scheduler runs whenever it can take a step.
SpecLoggerFair == SpecLogger /\ WF_vars(LoggerThread)

\* Whether t is l without the whitespace at its two ends.
IsStripped(t, l) ==
    \E i \in 1..(Len(l) + 1), j \in 0..Len(l) :
        /\ t = SubSeq(l, i, j)
        /\ \A k \in 1..Len(l) : (k < i \/ k > j) => l[k] \in Whitespace
        /\ t # <<>> => (t[1] \notin Whitespace /\ t[Len(t)] \notin Whitespace)

\* Whether the calls on the sink are the lines ls, stripped, in order, each once.
IsForwardOf(calls, ls) ==
    /\ Len(calls) = Len(ls)
    /\ \A i \in 1..Len(ls) : IsStripped(calls[i], ls[i])

\* C7: once the task has terminated, close() has been called on its stream
\* exactly once in total, and no error of close() has escaped.
C7_ClosedExactlyOnce ==
    thread[Attached] = "done" =>
        /\ close_calls[Attached] = 1
        /\ escaped[Attached] = {}

\* C8: when stop() has returned on a started task, the stop event is set, the
\* stream is closed and a join with a timeout has been attempted.
C8_StopDoesAllThree ==
    (stops[Attached] > 0 /\ stop_pc[Attached] = "idle" /\ stop_did[Attached].started) =>
        /\ stop_event[Attached]
        /\ stream_closed[Attached]
        /\ stop_did[Attached].joined

\* A read of a closed file returns (by raising).
ReadOfClosedFile ==
    /\ thread[Attached] = "read"
    /\ stream_kind[Attached] = "pipe"
    /\ stream_closed[Attached]
    /\ thread'[Attached] # "read"

\* The task has left its loop and is not blocked: it has ended, or its last
\* step can be taken.
Terminating(s) == thread[s] = "done" \/ ENABLED T_Finally(s)

\* C9: a read that raises the closed-file error ends the task as an end of
\* stream does: the task leaves its loop and terminates, it forwards nothing
\* after that, and no exception leaves the task or stop().
C9_ClosedReadEndsTask ==
    /\ [][ReadOfClosedFile => thread_exit'[Attached] = "closed_file"]_vars
    /\ [](thread_exit[Attached] = "closed_file" => Terminating(Attached))
    /\ [][thread_exit[Attached] = "closed_file" => sink'[Attached] = sink[Attached]]_vars
    /\ [](escaped[Attached] = {})
    /\ (thread_exit[Attached] = "closed_file" ~> thread[Attached] = "done")

\* C9's case: stop() closed the stream under a running task that had forwarded
\* a line, the task's read failed, and a written line stayed unread.
C9_Witness ==
    /\ thread_exit[Attached] = "closed_file"
    /\ thread[Attached] = "done"
    /\ stop_did[Attached].closed
    /\ Len(sink[Attached]) = 1
    /\ stream_buf[Attached] # <<>>

\* C10: a task that is not stopped terminates only by the empty read, and by
\* then it has forwarded exactly the lines its stream yielded, stripped, in
\* order, each once; it forwards nothing after that; and once the stream is at
\* its end the task terminates.
C10_ForwardsAllThenEnds ==
    /\ []((thread[Attached] = "done" /\ stops[Attached] = 0 /\ stop_pc[Attached] = "idle")
            => thread_exit[Attached] = "eof")
    /\ [](thread_exit[Attached] = "eof" =>
            /\ IsForwardOf(sink[Attached], produced[Attached])
            /\ Terminating(Attached))
    /\ [][thread_exit[Attached] # "none" => sink'[Attached] = sink[Attached]]_vars
    /\ ((stream_eof[Attached] /\ thread[Attached] # "none") ~> thread[Attached] = "done")

\* C10's case: the reads "a\n", "b\n", "" of a task nobody stopped.
C10_Witness ==
    /\ produced[Attached] = << <<"a", "\n">>, <<"b", "\n">> >>
    /\ sink[Attached] = << <<"a">>, <<"b">> >>
    /\ thread[Attached] = "done"
    /\ thread_exit[Attached] = "eof"
    /\ stops[Attached] = 0
    /\ stop_pc[Attached] = "idle"

\* C11: at every moment, also while stop() races with the reading, the calls a
\* task has made on its sink are the first k lines its stream produced, for
\* some k: stripped, in the order produced, each once and none skipped.
C11_SinkIsPrefixOfProduced ==
    \A s \in Streams :
        \E k \in 0..Len(produced[s]) :
            IsForwardOf(sink[s], SubSeq(produced[s], 1, k))

\* stop() was called while the task was reading: one line forwarded, a later
\* one produced and never forwarded.
C11_Witness ==
    /\ stops[Attached] > 0
    /\ thread[Attached] = "done"
    /\ thread_exit[Attached] = "closed_file"
    /\ Len(sink[Attached]) = 1
    /\ Len(produced[Attached]) = 2

\* The steps of a call of stop() after its test.
StopSteps == StopClose(Attached) \/ StopJoin(Attached)

\* C13: when stop() is at its close() while the task is blocked in a read, the
\* close can be done, and a blocked read of a closed stream returns, so that
\* the task goes on to its end.
C13_StopUnblocksRead ==
    /\ (stop_pc[Attached] = "close" /\ thread[Attached] = "blocked") =>
           ENABLED StopClose(Attached)
    /\ (stream_closed[Attached] /\ thread[Attached] = "blocked") =>
           ENABLED T_Read(Attached)

\* C14: a call of stop() that has begun can always take its next step, up to
\* its return, whatever the task does.
C14_StopReturns ==
    stop_pc[Attached] # "idle" => ENABLED StopSteps

\* C32: stop() joins the thread only after it has closed the stream, and its
\* close() is not held up by a task blocked in a read: the close is what ends
\* the read, before the wait of the join starts.
C32_CloseThenJoinUnblocks ==
    /\ stop_pc[Attached] = "join" =>
           /\ stop_did[Attached].closed
           /\ ~stop_did[Attached].joined
           /\ stream_closed[Attached]
    /\ (stop_pc[Attached] = "close" /\ ReadInProgress(Attached)) =>
           ENABLED StopClose(Attached)

\* A step of a call of stop(): the call begins, closes, or joins and returns.
IsStopStep ==
    stop_pc'[Attached] # stop_pc[Attached] \/ stops'[Attached] # stops[Attached]

\* C15: stop() never raises, in whatever state it is called, and no step of a
\* call that repeats a stop() changes the task's status, whether the stream is
\* closed, or the lines forwarded.
C15_StopIsIdempotent ==
    /\ [](escaped[Attached] = {})
    /\ [][(IsStopStep /\ stop_did'[Attached].again) =>
              /\ thread'[Attached] = thread[Attached]
              /\ stream_closed'[Attached] = stream_closed[Attached]
              /\ sink'[Attached] = sink[Attached]]_vars

\* A second stop() on a task that was still alive has closed the stream once
\* more and returned, on a stream whose close() raises.
C15_Witness ==
    /\ stops[Attached] = 2
    /\ stop_pc[Attached] = "idle"
    /\ stop_did[Attached].again
    /\ stop_did[Attached].closed
    /\ close_calls[Attached] >= 2
    /\ close_fails[Attached]

\* The line l without its line terminator, if it ends in one.
WithoutTerminator(l) ==
    IF l # <<>> /\ l[Len(l)] = "\n" THEN SubSeq(l, 1, Len(l) - 1) ELSE l

\* C25: what the task handed to its sink for the i-th line it read is that
\* line without its line terminator, other whitespace at its ends kept.
C25_OnlyTerminatorRemoved ==
    \A i \in 1..Len(sink[Attached]) :
        i <= Len(produced[Attached]) =>
            sink[Attached][i] = WithoutTerminator(produced[Attached][i])

\* ------------------------------------------------- launch_server: claims

\* C6: the child's streams are drained for as long as it runs, also after
\* launch_server has returned its handle: every line the child writes to a
\* stream is forwarded to that stream's sink, so a task that has ended (and
\* forwards no more) has forwarded every line written to its stream.
C6_EveryLineForwarded ==
    launch_pc = "returned" =>
        \A s \in Streams :
            thread[s] = "done" => IsForwardOf(sink[s], produced[s])

\* C12: when launch_server is over, by its return or by an error (the error of
\* a stderr logger that could not be started included), stop() has been called
\* and has returned on every logger whose thread was started; at the return,
\* that is both loggers.
C12_StartedAreStopped ==
    /\ launch_pc \in {"returned", "raised"} =>
           \A s \in Streams :
               thread[s] \notin {"none", "unstarted"} =>
                   (stops[s] = 1 /\ stop_pc[s] = "idle")
    /\ launch_pc = "returned" =>
           \A s \in Streams : stops[s] = 1 /\ thread[s] \notin {"none", "unstarted"}

\* The stderr logger could not be started, the stdout logger was started and
\* has been stopped, and the error has gone on to the caller.
C12_Witness ==
    /\ launch_pc = "raised"
    /\ thread["stderr"] = "unstarted"
    /\ thread["stdout"] \notin {"none", "unstarted"}
    /\ stops["stdout"] = 1
    /\ stops["stderr"] = 0

\* The loggers made for the stream s.
LoggersOf(s) == { i \in 1..Len(loggers) : loggers[i].stream = s }

\* The logger method that belongs to each stream of the child.
SinkOf(s) == IF s = "stdout" THEN "info" ELSE "error"

\* C33: launch_server makes at most one logger for each stream of the child,
\* and at its return exactly one for each; the logger of stdout has the info
\* method and the logger of stderr the error method; a thread runs on a stream
\* only when a logger was made for it, and what it has handed to its method
\* are lines of its own stream.
C33_OneLoggerPerStream ==
    /\ \A s \in Streams :
         /\ Cardinality(LoggersOf(s)) <= 1
         /\ \A i \in LoggersOf(s) : loggers[i].logger_method = SinkOf(s)
         /\ thread[s] # "none" => LoggersOf(s) # {}
         /\ \A k \in 1..Len(sink[s]) :
              \E l \in LinesOf(s) : IsStripped(sink[s][k], l)
    /\ launch_pc = "returned" =>
           \A s \in Streams : Cardinality(LoggersOf(s)) = 1

\* C33's case: launch_server has returned, and each logger has forwarded a line
\* of its stream.
C33_Witness ==
    /\ launch_pc = "returned"
    /\ Len(loggers) = 2
    /\ Len(sink["stdout"]) >= 1
    /\ Len(sink["stderr"]) >= 1

\* ------------------------------------------------------- chat loop: claims

\* The length of the first n lines of the context of ms, a newline after each.
RECURSIVE LinesLen(_, _)
LinesLen(ms, n) ==
    IF n = 0 THEN 0 ELSE LinesLen(ms, n - 1) + Len(ms[n].content) + 3

\* Whether ctx is the messages ms written as "role: content" lines, one per
\* message in order, with a newline between two lines and none at the end.
IsContextOf(ctx, ms) ==
    /\ Len(ctx) = IF ms = <<>> THEN 0 ELSE LinesLen(ms, Len(ms)) - 1
    /\ \A i \in 1..Len(ms) :
         LET o == LinesLen(ms, i - 1)
             c == ms[i].content
         IN /\ ctx[o + 1] = ms[i].role
            /\ ctx[o + 2] = ": "
            /\ SubSeq(ctx, o + 3, o + 2 + Len(c)) = c
            /\ i < Len(ms) => ctx[o + 3 + Len(c)] = "\n"

\* C16: in the n-th process_message call, the user's text is added to the
\* history first; the context is then the rendering of the history as that add
\* left it; the LLM is called once, with that context; then the reply is added
\* as the assistant's message; and the call returns the reply.
C16_ProcessMessageOrder ==
    LET n == Len(pm_calls) IN
    /\ pm_pc \in {"add_user", "render", "send"} => Len(llm_calls) = n - 1
    /\ pm_pc = "add_user" => Len(added) = 2 * n - 2
    /\ pm_pc \in {"render", "send", "display", "add_assistant"} =>
           /\ Len(added) = 2 * n - 1
           /\ LastAdded = [role |-> "user", content |-> pm_calls[n]]
           /\ messages[Len(messages)] =
                  [role |-> "user", content |-> Stored(pm_calls[n])]
    /\ pm_pc \in {"send", "display", "add_assistant"} =>
           IsContextOf(context, messages)
    /\ pm_pc \in {"display", "add_assistant", "return"} =>
           /\ Len(llm_calls) = n
           /\ llm_calls[n] = context
    /\ pm_pc = "return" =>
           /\ Len(added) = 2 * n
           /\ added[2 * n - 1] = [role |-> "user", content |-> pm_calls[n]]
           /\ LastAdded = [role |-> "assistant", content |-> response]
           /\ messages[Len(messages)] =
                  [role |-> "assistant", content |-> Stored(response)]
           /\ Len(pm_returns) = n - 1
    /\ (pm_pc = "idle" /\ interrupted_at # "process") =>
           /\ Len(pm_returns) = n
           /\ n > 0 => pm_returns[n] = response

\* The second turn of a run() is about to return: both turns are in the
\* history, and the second context had the first turn in it.
C16_Witness ==
    /\ run_pc = "process"
    /\ pm_pc = "return"
    /\ Len(pm_calls) = 2
    /\ Len(messages) = 4
    /\ Len(llm_calls[2]) > Len(llm_calls[1])
    /\ response = <<"Error: ", "boom">>

\* C17: whatever the backend call does, send_message returns a string and no
\* exception of it leaves process_message or run(); the turn goes on with that
\* string: it is added as the assistant's message and returned, and run() is
\* back at the head of its loop for the next prompt.
C17_LlmFaultIsAReply ==
    /\ [](chat_escaped \subseteq {"KeyboardInterrupt"})
    /\ [][(pm_pc = "send" /\ interrupted_at' = interrupted_at /\ pm_pc' # "send") =>
              /\ pm_pc' = "display"
              /\ run_pc' = run_pc
              /\ response' # <<>>]_vars
    /\ [](pm_pc = "return" =>
              LastAdded = [role |-> "assistant", content |-> response])
    /\ [][(pm_pc = "return" /\ interrupted_at' = interrupted_at /\ pm_pc' = "idle") =>
              /\ pm_returns' = Append(pm_returns, response)
              /\ run_pc = "process" => run_pc' = "loop_back"]_vars
    /\ [](run_pc = "loop_back" => ENABLED R_LoopBack)

\* A turn whose backend call raised APIError: the error text is the assistant's
\* message and run() prompts again.
C17_Witness ==
    /\ run_pc = "input"
    /\ Len(prompts) = 1
    /\ pm_returns = << <<"API Error: ", "quota">> >>
    /\ LastAdded = [role |-> "assistant", content |-> <<"API Error: ", "quota">>]
    /\ displayed[Len(displayed)] = <<"Assistant: ", "API Error: ", "quota">>
    /\ chat_escaped = {}

\* The upper-case form of a letter of the exit keywords.
UpperOfKeywordLetter(c) ==
    CASE c = "e" -> "E" [] c = "x" -> "X" [] c = "i" -> "I" [] c = "t" -> "T"
      [] c = "q" -> "Q" [] c = "u" -> "U"

\* Whether the typed line l is an exit keyword in some mix of cases.
IsExitKeyword(l) ==
    \E kw \in ExitKeywords :
        /\ Len(l) = Len(kw)
        /\ \A i \in 1..Len(kw) : l[i] \in {kw[i], UpperOfKeywordLetter(kw[i])}

\* The line input() returned last.
LastLine == prompts[Len(prompts)]

\* C18: when the line read is an exit keyword in any mix of cases, the next
\* step of run() can be taken and, unless it is an interrupt, ends run() by a
\* return after the exit message: without a call of process_message or of the
\* LLM and with the history as it was; and run() does nothing after it returned.
C18_ExitKeywordEndsRun ==
    /\ []((run_pc = "dispatch" /\ IsExitKeyword(LastLine)) => ENABLED R_Dispatch)
    /\ [][(run_pc = "dispatch" /\ IsExitKeyword(LastLine)
              /\ interrupted_at' = interrupted_at) =>
              /\ run_pc' = "returned"
              /\ displayed' = Append(displayed, ExitMessage)
              /\ pm_calls' = pm_calls
              /\ llm_calls' = llm_calls
              /\ messages' = messages
              /\ added' = added
              /\ current_chars' = current_chars
              /\ chat_escaped' = {}]_vars
    /\ [][run_pc # "returned"]_vars

\* After one turn, the line QuIT has ended run().
C18_Witness ==
    /\ run_pc = "returned"
    /\ Len(prompts) = 2
    /\ LastLine = <<"Q", "u", "I", "T">>
    /\ Len(pm_calls) = 1
    /\ Len(added) = 2
    /\ interrupted_at = "none"

\* What the typed line l is without the whitespace at its two ends.
StrippedOf(l) ==
    CHOOSE t \in { SubSeq(l, i, j) : i \in 1..(Len(l) + 1), j \in 0..Len(l) } :
        IsStripped(t, l)

\* Whether the typed line l has an exit keyword in it, in some mix of cases.
HasExitKeyword(l) ==
    \E i, j \in 1..Len(l) : IsExitKeyword(SubSeq(l, i, j))

\* The step of run() that ignores the line read: nothing is added, called or
\* displayed, and run() is at the jump back to its prompt.
LineIgnored ==
    /\ run_pc' = "continue"
    /\ pm_pc' = "idle"
    /\ pm_calls' = pm_calls
    /\ llm_calls' = llm_calls
    /\ displayed' = displayed
    /\ messages' = messages
    /\ added' = added

\* The step of run() that calls process_message, once.
LinePassed ==
    /\ run_pc' = "process"
    /\ pm_pc' = "add_user"
    /\ Len(pm_calls') = Len(pm_calls) + 1

\* A step of run() (not an interrupt) on the line it has just read.
IsDispatchStep == run_pc = "dispatch" /\ interrupted_at' = interrupted_at

\* C19, as stated: the empty line is ignored and run() prompts again; every
\* other line with no exit keyword in it is passed to process_message, once.
C19_EmptyIgnoredOthersPassed ==
    /\ [][IsDispatchStep =>
              IF LastLine = <<>> THEN LineIgnored
              ELSE IF HasExitKeyword(LastLine) THEN TRUE
              ELSE LinePassed]_vars
    /\ [](run_pc = "continue" => ENABLED R_Continue)
    /\ [](run_pc # "none" => Len(pm_calls) <= Len(prompts))

\* C19, amended: the line is stripped of the whitespace at its ends first; a
\* line that is empty after that is ignored and run() prompts again; every
\* other line with no exit keyword in it is passed, stripped, to
\* process_message, once.
C19_BlankIgnoredOthersPassedStripped ==
    /\ [][IsDispatchStep =>
              IF StrippedOf(LastLine) = <<>> THEN LineIgnored
              ELSE IF HasExitKeyword(LastLine) THEN TRUE
              ELSE /\ LinePassed
                   /\ pm_calls' = Append(pm_calls, StrippedOf(LastLine))]_vars
    /\ [](run_pc = "continue" => ENABLED R_Continue)
    /\ [](run_pc # "none" => Len(pm_calls) <= Len(prompts))

\* A line of two spaces was ignored, and the next line, " ab ", has been passed
\* to process_message as "ab".
C19_Witness ==
    /\ prompts = << <<" ", " ">>, <<" ", "a", "b", " ">> >>
    /\ pm_calls = << <<"a", "b">> >>
    /\ run_pc = "process"
    /\ pm_pc = "add_user"
    /\ added = <<>>
    /\ displayed = <<Banner>>

\* C20: a KeyboardInterrupt raised anywhere in the loop of run(), while it
\* waits for input or while a message is processed or in between, ends run()
\* by the except clause: the exit message is printed, run() returns and the
\* exception does not leave it.
C20_InterruptExitsGracefully ==
    interrupted_at \in InsideLoop =>
        /\ run_pc \in {"handler", "returned"}
        /\ "KeyboardInterrupt" \notin chat_escaped
        /\ run_pc = "returned" => displayed[Len(displayed)] = <<"\n">> \o ExitMessage

\* ---------------------------------------------- launch_server: more claims

\* The first of 'command', 'args' that the configuration c lacks, "" if none.
MissingKey(c) ==
    IF "command" \notin DOMAIN c THEN "command"
    ELSE IF "args" \notin DOMAIN c THEN "args"
    ELSE ""

\* C21: a launch_server call with a configuration that lacks 'command' or
\* 'args' ends with KeyError raised to the caller and one log entry naming the
\* missing key; Popen has not been called and no logger thread was started.
C21_MissingKeyNoSpawn ==
    (launch_pc # "idle" /\ MissingKey(server_config) # "") =>
        /\ launch_pc = "raised"
        /\ outcome = "KeyError"
        /\ error_log = << <<"Missing required config key", MissingKey(server_config)>> >>
        /\ popen_calls = <<>>
        /\ process = "none"
        /\ \A s \in Streams : thread[s] = "none" /\ stops[s] = 0

\* A call with 'command' and without 'args' has failed.
C21_Witness ==
    /\ launch_pc = "raised"
    /\ "command" \in DOMAIN server_config
    /\ "args" \notin DOMAIN server_config
    /\ outcome = "KeyError"
    /\ error_log = << <<"Missing required config key", "args">> >>

\* C22: when Popen fails, whatever the failure, launch_server has logged it and
\* raised it to the caller, after one call of Popen and without starting a
\* logger thread.
C22_SpawnFailureLoggedAndRaised ==
    (launch_pc = "raised"
        /\ outcome \in {"SubprocessError", "FileNotFoundError", "PermissionError"}) =>
        /\ Len(error_log) = 1
        /\ Len(popen_calls) = 1
        /\ process = "none"
        /\ \A s \in Streams : thread[s] = "none"

\* Whether out is the string part with each placeholder in it replaced by the
\* workspace path (one token of the model) and every other token as it was.
IsResolved(out, part) ==
    /\ Len(workspace_path) = 1
    /\ Len(out) = Len(part)
    /\ \A k \in 1..Len(part) :
         out[k] = IF part[k] = Placeholder THEN workspace_path[1] ELSE part[k]

\* C23: the command launch_server builds has one element for each element of
\* 'command' and then of 'args', in their order, and each is its source with
\* every placeholder replaced by the workspace path and the rest unchanged.
C23_EveryPlaceholderResolved ==
    launch_pc = "popen" =>
        LET source == server_config.command \o server_config.args IN
        /\ Len(full_command) = Len(source)
        /\ \A i \in 1..Len(source) : IsResolved(full_command[i], source[i])
        /\ \A i \in 1..Len(full_command) :
             \A k \in 1..Len(full_command[i]) : full_command[i][k] # Placeholder

\* A command with the placeholder after text in one element and twice in the
\* next, and an element of args with text between two placeholders, all resolved.
C23_Witness ==
    /\ launch_pc = "popen"
    /\ server_config.command = << <<"x", Placeholder>>, <<Placeholder, Placeholder>> >>
    /\ server_config.args = << <<Placeholder, "x", Placeholder>> >>
    /\ full_command =
           << <<"x", workspace_path[1]>>,
              <<workspace_path[1], workspace_path[1]>>,
              <<workspace_path[1], "x", workspace_path[1]>> >>

\* C24: when launch_server has returned, Popen has been called once, with the
\* resolved elements of 'command' followed by those of 'args'; what is returned
\* is the process that call started; and the launcher's attributes are what
\* they were before the call.
C24_OneSpawnNothingKept ==
    launch_pc = "returned" =>
        LET source == server_config.command \o server_config.args IN
        /\ Len(popen_calls) = 1
        /\ Len(popen_calls[1]) = Len(source)
        /\ \A i \in 1..Len(source) : IsResolved(popen_calls[1][i], source[i])
        /\ process = "running"
        /\ outcome = "process"
        /\ launcher = NewLauncher
        /\ error_log = <<>>

\* The launch of python with ${workspaceFolder}/workspace/ has returned.
C24_Witness ==
    /\ launch_pc = "returned"
    /\ outcome = "process"
    /\ popen_calls = << << <<"python">>, <<workspace_path[1], "/workspace/">> >> >>
    /\ \A s \in Streams : stops[s] = 1


\* Whether the context ctx ends with the line e: e is all of ctx, or its end
\* after a newline.
EndsWithLine(ctx, e) ==
    /\ Len(ctx) >= Len(e)
    /\ SubSeq(ctx, Len(ctx) - Len(e) + 1, Len(ctx)) = e
    /\ Len(ctx) > Len(e) => ctx[Len(ctx) - Len(e)] = "\n"

\* C36: the context given to the LLM in the i-th process_message call ends
\* with the line of that call's user message: "user: " and the text given, or
\* its first max_chars characters when it is longer than max_chars.
C36_ContextEndsWithUserTurn ==
    /\ Len(llm_calls) <= Len(pm_calls)
    /\ \A i \in 1..Len(llm_calls) :
         EndsWithLine(llm_calls[i], <<"user", ": ">> \o Stored(pm_calls[i]))

\* C36's case: in a second turn the user's text is longer than max_chars, and
\* the context is the line of its first max_chars characters alone.
C36_Witness ==
    /\ Len(llm_calls) = 2
    /\ max_chars = 1
    /\ pm_calls[2] = <<"a", "b">>
    /\ llm_calls[1] # llm_calls[2]
    /\ llm_calls[2] = <<"user", ": ", "a">>

\* ------------------------------------------------- history: more claims

\* C26: every string get_context_string returned is the messages held, in
\* their order, each as "role: content", with one newline between two of them
\* and none before the first or after the last; it is the empty string when no
\* message is held.
C26_ContextFormat ==
    \A i \in 1..Len(rendered) :
        /\ IsContextOf(rendered[i], messages)
        /\ messages = <<>> => rendered[i] = <<>>

\* C26's case: the test's shape, a user's message and an assistant's message
\* rendered with one newline between them.
C26_Witness ==
    /\ Len(rendered) >= 1
    /\ Len(messages) = 2
    /\ messages[1].role = "user"
    /\ messages[2].role = "assistant"
    /\ messages[1].content # <<>>
    /\ messages[2].content # <<>>
    /\ rendered[1] = <<"user", ": ">> \o messages[1].content \o <<"\n">>
                         \o <<"assistant", ": ">> \o messages[2].content

\* A step that is a get_context_string call: no message was given and the
\* history was not cleared, and a string was returned.
IsReadStep ==
    /\ added' = added
    /\ lastOp' = lastOp
    /\ rendered' # <<>>

\* C27: a get_context_string call leaves the messages, their count of
\* characters and max_chars as they were, and two calls with no add_message or
\* clear call between them return the same string.
C27_ReadIsPure ==
    /\ [][IsReadStep => /\ messages' = messages
                        /\ current_chars' = current_chars
                        /\ max_chars' = max_chars]_vars
    /\ [](Len(rendered) = 2 => rendered[1] = rendered[2])

\* C27's case: two calls in a row on a history of two messages.
C27_Witness ==
    /\ Len(rendered) = 2
    /\ Len(messages) = 2
    /\ rendered[2] # <<>>

\* What a history created empty holds after the messages as were added to it.
RECURSIVE AddAll(_, _)
AddAll(st, as) ==
    IF as = <<>> THEN st
    ELSE AddAll(AddResult(st.messages, st.current_chars,
                          Head(as).role, Head(as).content), Tail(as))

\* A step that is a clear() call.
IsClearStep ==
    /\ lastOp' = "clear"
    /\ added' = <<>>
    /\ rendered' = <<>>

\* C28: a clear() call leaves no message and a count of 0, and max_chars as it
\* was; until the next add_message call every get_context_string call returns
\* the empty string; and the history is at any time what a history created
\* empty would be after the add_message calls made since the clear() call.
C28_ClearResets ==
    /\ [][IsClearStep => /\ messages' = <<>>
                         /\ current_chars' = 0
                         /\ max_chars' = max_chars]_vars
    /\ [](lastOp = "clear" =>
              /\ messages = <<>>
              /\ current_chars = 0
              /\ \A i \in 1..Len(rendered) : rendered[i] = <<>>)
    /\ [](HistState(messages, current_chars) = AddAll(HistState(<<>>, 0), added))

\* C28's case: a clear() call removed messages, and the context was read twice
\* after it.
C28_Witness ==
    /\ lastOp = "clear"
    /\ cleared
    /\ Len(rendered) = 2

\* A step that is an add_message call.
IsAddStep == Len(added') = Len(added) + 1

\* Whether p is the first Len(p) characters of s.
IsPrefixOf(p, s) ==
    /\ Len(p) <= Len(s)
    /\ \A i \in 1..Len(p) : p[i] = s[i]

\* C29: after an add_message call, the messages held before the last one are
\* the last ones of the messages held before the call, with their roles and
\* contents as they were; the last one has the role given and the content
\* given or a prefix of it.
C29_OnlyTheAddedIsShortened ==
    [][IsAddStep =>
          LET n == Len(messages')
              k == Len(messages) - (n - 1)
          IN /\ n >= 1
             /\ k >= 0
             /\ \A i \in 1..(n - 1) : messages'[i] = messages[k + i]
             /\ messages'[n].role = added'[Len(added')].role
             /\ IsPrefixOf(messages'[n].content, added'[Len(added')].content)]_vars

\* C29's case: an add evicted the oldest message, kept the next one as it was,
\* and held the new one.
C29_Witness ==
    /\ lastOp = "add"
    /\ Len(added) = 3
    /\ Len(messages) = 2
    /\ messages[1] = added[2]
    /\ messages[1].content # <<>>
    /\ added[1].content # <<>>

\* C35: an add_message call that evicted messages and kept the message given
\* whole evicted no more than it had to: the last message it evicted would not
\* have fitted with the messages it retained.
C35_EvictsNoMoreThanNeeded ==
    [][IsAddStep =>
          LET given == added'[Len(added')]
              evicted == Len(messages) + 1 - Len(messages')
          IN (evicted >= 1 /\ messages'[Len(messages')] = given) =>
                 Len(Append(messages, given)[evicted].content)
                     + SumChars(messages') > max_chars]_vars

\* C35's case: of three messages added the first was evicted, and the two
\* retained leave room that the first one would more than fill.
C35_Witness ==
    /\ lastOp = "add"
    /\ Len(added) = 3
    /\ messages = <<added[2], added[3]>>
    /\ added[2].content # <<>>
    /\ current_chars < max_chars
    /\ Len(added[1].content) + current_chars > max_chars

\* ------------------------------------------------ read_servers_json: claims

\* Whether the tokens t spell a JSON value: some "[" and then as many "]".
IsWellFormed(t) ==
    \E n \in 1..Len(t) :
        /\ Len(t) = 2 * n
        /\ \A i \in 1..n : t[i] = "[" /\ t[n + i] = "]"

\* The value of n nested arrays, the innermost empty.
RECURSIVE Nested(_)
Nested(n) == IF n <= 1 THEN <<>> ELSE <<Nested(n - 1)>>

\* The exceptions that say a document could not be parsed.
ParseErrors == {"JSONDecodeError", "UnicodeDecodeError"}

\* C30: a read_servers_json call on a missing file raises FileNotFoundError,
\* on a file that is not a well-formed document raises a parse error, in both
\* cases after logging one error; on a well-formed document it returns the
\* parsed document and logs nothing.
C30_ReadFailuresLoggedAndRaised ==
    read_pc = "done" =>
        LET good == config_file.kind = "utf8" /\ IsWellFormed(config_file.text) IN
        /\ config_file.kind = "missing" =>
               /\ read_result = Raises("FileNotFoundError")
               /\ Len(read_errors) = 1
        /\ (config_file.kind # "missing" /\ ~good) =>
               /\ read_result.raises \in ParseErrors
               /\ Len(read_errors) = 1
        /\ good =>
               /\ read_result = Returns(Nested(Len(config_file.text) \div 2))
               /\ read_errors = <<>>

\* ---------------------------------------------------- ToolRegistry: claims

\* C31: over any sequence of register, get and list_tools calls: the registry
\* holds, for every name a register call was given, the schema the first such
\* call was given, and nothing else; no call removes or replaces an entry; a
\* register call for a registered name raises ValueError and leaves the
\* registry as it was; a get call returns the schema first registered under
\* the name, and raises KeyError for a name no register call was given.
C31_FirstRegistrationStays ==
    /\ [](tools = first_given)
    /\ [][\A n \in DOMAIN tools : n \in DOMAIN tools' /\ tools'[n] = tools[n]]_vars
    /\ [][(reg_call'.op = "register"
               /\ reg_call'.tool_name \in DOMAIN first_given) =>
              (reg_result' = Raises("ValueError") /\ tools' = tools)]_vars
    /\ [](reg_call.op = "get" =>
              IF reg_call.tool_name \in DOMAIN first_given
              THEN reg_result = Returns(first_given[reg_call.tool_name])
              ELSE reg_result = Raises("KeyError"))

\* C31's case: the test's shape, a second schema refused for a registered
\* name, the first one still held.
C31_Witness ==
    /\ reg_call.op = "register"
    /\ reg_result = Raises("ValueError")
    /\ tools[reg_call.tool_name] # reg_call.tool_schema
    /\ tools[reg_call.tool_name].name = reg_call.tool_name
    /\ reg_call.tool_schema.name = reg_call.tool_name


\* ------------------------------------------------------ MCP client: claims

\* Whether l is the record v on one line: the tokens that spell v, then a
\* newline.
IsRecordLine(l, v) ==
    /\ l # <<>>
    /\ l[Len(l)] = "\n"
    /\ LET t == SubSeq(l, 1, Len(l) - 1) IN
       /\ IsWellFormed(t)
       /\ Nested(Len(t) \div 2) = v

\* Whether t is the records vs, in order, one on each line.
RECURSIVE IsLinesOf(_, _)
IsLinesOf(t, vs) ==
    IF vs = <<>> THEN t = <<>>
    ELSE \E k \in 1..Len(t) :
            /\ IsRecordLine(SubSeq(t, 1, k), Head(vs))
            /\ IsLinesOf(SubSeq(t, k + 1, Len(t)), Tail(vs))

\* All that has been written to sys.stdout.
Written == stdout_sent \o stdout_buf

\* A step in which readline() returns.
IsReadlineStep == client_pc = "readline" /\ client_pc' = "loads"

\* C34: process_tool_call writes the record, then a newline, then flushes:
\* when it is at its newline the record is written and lacks its newline only,
\* when it is at its flush the line is complete, and once it has returned
\* nothing is left unflushed and the reader has been handed the records of
\* all the calls made, in order, one on each line.  A read_tool_result call
\* that finds input takes one line from it, up to and with its newline, and
\* leaves the rest; for a line that holds a record it returns that record.
C34_OneRecordPerLineFlushed ==
    /\ [](client_pc \notin {"dump", "newline", "flush"} =>
              /\ stdout_buf = <<>>
              /\ IsLinesOf(stdout_sent, tool_calls))
    /\ [](client_pc = "newline" => IsLinesOf(Written \o <<"\n">>, tool_calls))
    /\ [](client_pc = "flush" => IsLinesOf(Written, tool_calls))
    /\ [][(IsReadlineStep /\ stdin # <<>>) =>
              /\ stdin = result_line' \o stdin'
              /\ \A i \in 1..Len(result_line') :
                     result_line'[i] = "\n" <=> i = Len(result_line')]_vars
    /\ [](client_pc # "loads" =>
              \A v \in ToolRecords :
                  IsRecordLine(result_line, v) => client_result = Returns(v))

\* C34's case: two different records were sent, and a read returned a record
\* with more input left.
C34_Witness ==
    /\ client_pc = "idle"
    /\ Len(tool_calls) = 2
    /\ tool_calls[1] # tool_calls[2]
    /\ IsRecordLine(result_line, << <<>> >>)
    /\ client_result = Returns(<< <<>> >>)
    /\ stdin # <<>>


\* ------------------------------------------------- chat loop: more claims

\* A step in which an exception ends process_message during the LLM call.
IsFailedSendStep == pm_pc = "send" /\ pm_pc' = "idle"

\* The messages held before the last message was given to add_message.
HeldBeforeLastAdd ==
    AddAll(HistState(<<>>, 0), SubSeq(added, 1, Len(added) - 1)).messages

\* What a step that ends process_message during the LLM call leaves: the
\* exception is on its way out of process_message, the history is as the add
\* of the user's message left it, that message is the last one given and the
\* last one held, and nothing was returned.
FailedSendLeavesUserMessage ==
    IsFailedSendStep =>
        /\ \/ chat_escaped' # {}
           \/ run_pc' = "handler"
        /\ messages' = messages
        /\ current_chars' = current_chars
        /\ added' = added
        /\ LastAdded = [role |-> "user", content |-> user_message]
        /\ messages[Len(messages)] =
               [role |-> "user", content |-> Stored(user_message)]
        /\ pm_returns' = pm_returns

\* C37 as stated: a process_message call that an exception ends during the LLM
\* call leaves the user's message in the history and no assistant's message,
\* and the history it leaves differs from the history before the call.
C37_FailedTurnChangesHistory ==
    [][/\ FailedSendLeavesUserMessage
       /\ IsFailedSendStep => messages' # HeldBeforeLastAdd]_vars

\* C37, amended: a process_message call that an exception ends during the LLM
\* call leaves the user's message in the history and no assistant's message;
\* the history it leaves differs from the history before the call whenever
\* that one was empty or ended with an assistant's message.
C37_FailedTurnKeepsUserMessage ==
    [][/\ FailedSendLeavesUserMessage
       /\ IsFailedSendStep =>
              LET before == HeldBeforeLastAdd IN
              (before = <<>> \/ before[Len(before)].role = "assistant") =>
                  messages' # before]_vars

\* C37's case: the LLM call of a second turn raised; the history holds the
\* reply of the first turn and the user's message of the second.
C37_Witness ==
    /\ pm_pc = "idle"
    /\ chat_escaped = {"Exception"}
    /\ Len(pm_calls) = 2
    /\ Len(pm_returns) = 1
    /\ Len(llm_calls) = 2
    /\ Len(messages) >= 2
    /\ messages[Len(messages)] = [role |-> "user", content |-> pm_calls[2]]
    /\ messages[Len(messages) - 1].role = "assistant"


\* Every process_message call made has returned.
BetweenTurns == pm_pc = "idle" /\ Len(pm_returns) = Len(pm_calls)

\* C38: between turns, when every process_message call made has returned, no
\* two messages next to each other in the history have the same role, and the
\* last message, if there is one, is an assistant's.
C38_RolesAlternate ==
    BetweenTurns =>
        /\ \A i \in 1..(Len(messages) - 1) : messages[i].role # messages[i + 1].role
        /\ messages # <<>> => messages[Len(messages)].role = "assistant"

\* C38's case: after two turns the first user's message has been evicted, and
\* the history begins with an assistant's message.
C38_Witness ==
    /\ BetweenTurns
    /\ Len(pm_calls) = 2
    /\ Len(added) = 4
    /\ Len(messages) = 3
    /\ messages[1].role = "assistant"
    /\ max_chars < DefaultMaxChars
====
